---- MODULE Spec2Model ----
(***************************************************************************)
(* Model of the testing-agent backend: the session orchestrator            *)
(* (backend/main.py), the self-correction loop                             *)
(* (backend/agent/generator.py), the LLM client's result classification    *)
(* (backend/agent/llm_client.py) and the metrics log                       *)
(* (backend/utils/metrics.py).                                             *)
(*                                                                         *)
(* Python None is the empty tuple and a present value x is <<x>>, so that  *)
(* every optional field has one TLA+ type.  Texts and codes are sequences  *)
(* of tokens; the empty code <<>> is Python's "".                          *)
(***************************************************************************)
EXTENDS Integers, Sequences, FiniteSets, TLC

VARIABLES
    \* ---- AgentState (main.py:35-48) ----
    current_phase,      \* None or <<phase name>>
    page_knowledge,     \* None or <<[url, elements]>>
    test_cases,         \* None or <<[cases, coverage]>>
    generated_code,     \* None or <<code>>
    iterations,         \* MetricsTracker.iterations: sequence of phase names
    browser_manager,    \* None or <<"bm">>
    \* ---- websocket_endpoint / handler position ----
    pc,                 \* where the connection's coroutine is suspended
    cmd,                \* command being handled (or last handled)
    payload,            \* its payload: [url, dict], dict FALSE when not an object
    local,              \* the suspended handler's local value (argument or result)
    exc,                \* name of the exception being propagated, "" when none
    \* ---- verify_and_refine locals (generator.py:147-198) ----
    code,               \* local `code`
    attempt,            \* number of loop iterations entered so far
    max_rounds,         \* parameter max_rounds
    last_result,        \* None or <<report>>
    issue,              \* None or <<the issue text given to refine_code>>
    vr,                 \* None or <<[code, verification]>>: the value returned
    \* ---- history (observation only, never read by an action's guard) ----
    trace,              \* sends, collaborator calls and stores of the current command
    ncmds,              \* number of messages received on the websocket
    last_completed,     \* phase of the last phase_complete since the last reset
    raced,              \* a POST /reset ran while a handler was suspended
    \* ---- one run of TestVerifier._run_pytest (verifier.py:119-228) ----
    run,                \* what the runner did: [exc, rc, raw]
    report,             \* None or <<the report _run_pytest returned>>
    \* ---- the websocket transport ----
    link,               \* "up", or "down" once send_json raises
    \* ---- the latest-report file (verification_with_screenshots.json) ----
    disk,               \* [inodes, report, tmp]: files and the two paths
    writers,            \* per writing process: [pc, fd, off, runs]
    reader,             \* GET /reports/verification: [pc, result]
    \* ---- one call of CopilotClient.generate_json (llm_client.py:193-284) ----
    gen,                \* what generate did: [exc, text], text None or <<chars>>
    extracted,          \* None or <<the result generate_json returned>>
    \* ---- the browsers of the session (utils/browser.py, main.py:35-61) ----
    verifier,           \* agent_state.verifier: None or <<the browser it holds>>
    managers,           \* the BrowserManager objects made so far: [open, held]
    pending             \* managers whose close() task is scheduled, not yet run

vars == <<current_phase, page_knowledge, test_cases, generated_code, iterations,
          browser_manager, pc, cmd, payload, local, exc, code, attempt, max_rounds,
          last_result, issue, vr, trace, ncmds, last_completed, raced,
          run, report, link, disk, writers, reader, gen, extracted,
          verifier, managers, pending>>

sessionVars == <<current_phase, page_knowledge, test_cases, generated_code,
                 iterations, browser_manager>>
loopVars == <<code, attempt, max_rounds, last_result, issue, vr>>
\* the session, its websocket coroutine and the history
mainVars == <<sessionVars, pc, cmd, payload, local, exc, loopVars, trace, ncmds,
              last_completed, raced>>
\* state of the components that are exercised on their own
browserVars == <<verifier, managers, pending>>
sideVars == <<run, report, link, disk, writers, reader, gen, extracted, browserVars>>

----------------------------------------------------------------------------
(* Bounds *)
MaxCmds == 4            \* messages received per behaviour
MaxRounds == 3          \* largest retry budget tried on the loop alone
MaxLines == 3           \* lines of runner output given to the report parser
MaxReports == 2         \* runs of each process that writes the report file
ReportChunks == 2       \* writes it takes to put a whole report into a file
MaxTextLen == 4         \* characters of generated text given to the extractor
MaxDepth == 1           \* nesting of the values of an embedded JSON object
MaxBrowserCmds == 8     \* commands received where the browsers are followed

(* Program constants *)
DefaultMaxRounds == 1   \* generator.py:147, max_rounds: int = 1

None == <<>>
Some(x) == <<x>>
\* Python truthiness of an optional artifact: None and "" are falsy.
Truthy(x) == x # None /\ x # Some(<<>>)

URLs == {"u1", "u2"}

\* payloads: url "" stands for a payload without a url
Payload(url, isDict) == [url |-> url, dict |-> isDict]
NoPayload == Payload("", TRUE)

\* Token texts an LLM answer may consist of.
FENCE_PY == "fence_python"   \* the token that opens a python code fence
FENCE == "fence"             \* the token of a bare code fence
LLMTexts == { <<"a">>, <<FENCE_PY, "b", FENCE>>, <<FENCE, FENCE>> }
ErrorText == <<"Error">>

----------------------------------------------------------------------------
(* CodeGenerator._extract_code, generator.py:98-114 *)

RECURSIVE IndexOf(_, _, _)
\* first index >= i of a token of set S in s, or 0
IndexOf(s, S, i) ==
    IF i > Len(s) THEN 0
    ELSE IF s[i] \in S THEN i
    ELSE IndexOf(s, S, i + 1)

\* tokens after position i up to (excluding) the next token of S
UpToNext(s, S, i) ==
    LET j == IndexOf(s, S, i + 1)
    IN  IF j = 0 THEN SubSeq(s, i + 1, Len(s)) ELSE SubSeq(s, i + 1, j - 1)

ExtractCode(text) ==
    LET p == IndexOf(text, {FENCE_PY}, 1)
        f == IndexOf(text, {FENCE}, 1)
    IN  IF p # 0 THEN UpToNext(text, {FENCE_PY, FENCE}, p)
        ELSE IF f # 0 THEN UpToNext(text, {FENCE}, f)
        ELSE text

----------------------------------------------------------------------------
(* LLMClient.generate, llm_client.py:34-95 *)

\* What the provider does with one request.
LLMResponses ==
    [kind : {"ok"}, text : LLMTexts, tokens : {5}, msg : {""}]
    \cup [kind : {"ok"}, text : {<<"a">>}, tokens : {0}, msg : {""}]
    \cup [kind : {"null"}, text : {<<>>}, tokens : {5}, msg : {""}]
    \cup [kind : {"raise"}, text : {<<>>}, tokens : {0},
          msg : {"connection refused", "rate_limit reached"}]

NoTokensMessage == "No tokens available from LLM provider"

\* llm_client.py:88, the words that make an error a quota error
IsQuotaMessage(m) == m \in {"rate_limit reached"}

\* The exception raised inside the try block (line 42-80), "" when none.
RaisedInTry(resp) ==
    IF resp.kind = "raise" THEN resp.msg
    ELSE IF resp.tokens = 0 THEN NoTokensMessage
    ELSE ""

\* Result of generate: exc # "" when it raises, else the returned dict.
LLMGenerate(resp) ==
    LET e == RaisedInTry(resp)
    IN  IF e = ""
        THEN [exc |-> "", text |-> IF resp.kind = "null" THEN None ELSE Some(resp.text),
              tokens |-> resp.tokens]
        ELSE IF IsQuotaMessage(e)
        THEN [exc |-> "NoTokensError", text |-> None, tokens |-> 0]
        ELSE [exc |-> "", text |-> Some(ErrorText), tokens |-> 0]

\* How the orchestrator and the claims name the outcome of a call.
LLMOutcome(resp) ==
    IF resp.kind = "raise"
    THEN (IF IsQuotaMessage(resp.msg) THEN "quota" ELSE "request_failed")
    ELSE IF resp.tokens = 0 THEN "zero_tokens"
    ELSE IF resp.kind = "null" THEN "null_content"
    ELSE "ok"

----------------------------------------------------------------------------
(* History helpers *)

Send(type, detail) == <<"send", type, detail>>
Call(who, outcome) == <<"call", who, outcome>>
Store(field) == <<"store", field, "">>

Sends(t) == SelectSeq(t, LAMBDA e : e[1] = "send")
TerminalTypes == {"phase_complete", "error", "info", "chat_response"}
IsTerminal(e) == e[1] = "send" /\ e[2] \in TerminalTypes
Count(t, P(_)) == Len(SelectSeq(t, P))

\* a tracker that keeps the latest entry only
AddIterationReplacing(its, phase) == <<phase>>

\* MetricsTracker.add_iteration, metrics.py:14-19
AddIteration(its, phase) == Append(its, phase)

----------------------------------------------------------------------------
(* TestVerifier._run_pytest / verify, verifier.py:21-228 *)

\* The runner's output is a sequence of lines, a line a sequence of
\* whitespace-separated tokens.  A token is what the regular expressions of
\* _run_pytest can see of it: w, the word it is (or begins with), and d, the
\* number its trailing digits spell (-1 when it does not end with a digit);
\* x tells that the token goes on after the word ("passedx").
Tok(w, d) == [w |-> w, d |-> d, x |-> FALSE]
Num(n) == Tok("num", n)             \* "3"
Word(k) == Tok(k, -1)               \* "PASSED", "failed,", "errors"
Name == Tok("name", -1)             \* "t.py::test_login"
NameN(n) == Tok("name", n)          \* "t.py::test_login_2"
Rule == Tok("rule", -1)             \* "====="
In == Tok("in", -1)                 \* "in"
Dur == Tok("dur", -1)               \* "2.10s"

Longer(k) == [w |-> k, d |-> -1, x |-> TRUE]

\* \bk\b for a word k of ws matches inside the token
IsWord(t, ws) == t.w \in ws /\ ~t.x
\* the token begins with one of the words ws
BeginsWith(t, ws) == t.w \in ws

MinOf(S) == CHOOSE x \in S : \A y \in S : x <= y

\* verifier.py:161, \b(PASSED|FAILED|ERROR)\b, case-insensitive
PatternTest(l) == \E i \in 1..Len(l) : IsWord(l[i], {"passed", "failed", "error"})

SummaryWords == {"passed", "failed", "error", "errors", "skipped", "xfailed"}

\* verifier.py:162, =+.*\b(passed|failed|errors?|skipped|xfailed)\b.*in\s*[\d\.]+s.*=+
PatternSummary(l) ==
    \E a \in 1..Len(l) :
        /\ l[a].w = "rule"
        /\ \E b \in (a + 1)..Len(l) :
            /\ IsWord(l[b], SummaryWords)
            /\ \E c \in (b + 1)..(Len(l) - 2) :
                /\ l[c].w = "in" /\ l[c + 1].w = "dur"
                /\ \E e \in (c + 2)..Len(l) : l[e].w = "rule"

\* re.search(r"(\d+)\s+<word>", text): the number of the leftmost match,
\* -1 when there is none (verifier.py:168, 182, 188, 194)
SearchCount(ts, ws) ==
    LET hits == {i \in 1..(Len(ts) - 1) : ts[i].d >= 0 /\ BeginsWith(ts[i + 1], ws)}
    IN  IF hits = {} THEN -1 ELSE ts[MinOf(hits)].d

\* the raw text as one token stream: line ends are whitespace to \s+
RECURSIVE Flatten(_)
Flatten(lines) ==
    IF lines = <<>> THEN <<>> ELSE Head(lines) \o Flatten(Tail(lines))

\* verifier.py:164
ResultLines(lines) ==
    SelectSeq(lines, LAMBDA l : PatternTest(l) \/ PatternSummary(l))

HasPassedCount(l) == SearchCount(l, {"passed"}) >= 0

\* verifier.py:166-170: the last line that holds "<n> passed"
SummaryLine(lines) ==
    LET hits == {i \in 1..Len(lines) : HasPassedCount(lines[i])}
    IN  IF hits = {} THEN None
        ELSE Some(lines[CHOOSE i \in hits : \A j \in hits : j <= i])

\* verifier.py:171-174
WithSummary(lines) ==
    LET rl == ResultLines(lines)
        sl == SummaryLine(lines)
    IN  IF sl # None /\ sl[1] # <<>> /\ ~(\E i \in 1..Len(rl) : rl[i] = sl[1])
        THEN (IF rl # <<>> /\ rl[Len(rl)] # <<>> THEN Append(rl, <<>>) ELSE rl)
                 \o sl
        ELSE rl

\* verifier.py:176, str.strip of the joined lines: blank lines at either end disappear
RECURSIVE Strip(_)
Strip(ls) ==
    IF ls = <<>> THEN <<>>
    ELSE IF Head(ls) = <<>> THEN Strip(Tail(ls))
    ELSE IF ls[Len(ls)] = <<>> THEN Strip(SubSeq(ls, 1, Len(ls) - 1))
    ELSE ls

\* verifier.py:186, 192: marker lines that hold the whole word k and are not
\* the summary
CountMarkers(rl, k) ==
    Len(SelectSeq(rl, LAMBDA l : (\E i \in 1..Len(l) : IsWord(l[i], {k}))
                                 /\ ~PatternSummary(l)))

\* verifier.py:198: no exclusion of the summary line
CountErrorLines(rl) ==
    Len(SelectSeq(rl, LAMBDA l : \E i \in 1..Len(l) : IsWord(l[i], {"error"})))

\* a parser whose verdict follows the counted failures
SuccessFromCounts(rc, failed, errors) == failed = 0 /\ errors = 0

\* verifier.py:200, success = rc == 0
Success(rc, failed, errors) == rc = 0

\* verifier.py:158-216: the report built from the captured output
ParseReport(raw, rc) ==
    LET rl == WithSummary(raw)
        ts == Flatten(raw)
        p == SearchCount(ts, {"passed"})
        f == SearchCount(ts, {"failed"})
        e == SearchCount(ts, {"error", "errors"})
        passed == IF p >= 0 THEN p ELSE CountMarkers(rl, "passed")
        failed == IF f >= 0 THEN f ELSE CountMarkers(rl, "failed")
        errors == IF e >= 0 THEN e ELSE CountErrorLines(rl)
    IN  [success |-> Success(rc, failed, errors), passed |-> passed,
         failed |-> failed, errors |-> errors, output |-> Strip(rl)]

\* a runner failure reported without an error count
ErrorReportWithoutError ==
    [success |-> FALSE, passed |-> 0, failed |-> 0, errors |-> 0,
     output |-> << <<Word("Execution error")>> >>]

\* verifier.py:218-228: the report of a run that raised
ErrorReport ==
    [success |-> FALSE, passed |-> 0, failed |-> 0, errors |-> 1,
     output |-> << <<Word("Execution error")>> >>]

\* _run_pytest as a whole; up: the "Tests completed" send of line 202, inside
\* the try block, went through
RunPytestReport(o, up) ==
    IF o.exc \/ ~up THEN ErrorReport ELSE ParseReport(o.raw, o.rc)

\* Runs tried inside the session and the loop: rc is pytest's exit status;
\* exc: the runner raised; raw: what it printed
PassedLine == <<Name, Word("passed")>>
SampleRaws == { <<>>, <<PassedLine, <<Rule, Num(1), Word("passed"), In, Dur, Rule>> >> }
RunOutcomes == [exc : {FALSE}, rc : {0, 1}, raw : SampleRaws]
               \cup [exc : {TRUE}, rc : {1}, raw : {<<>>}]

RunName(o) == IF o.exc THEN "crash" ELSE IF o.rc = 0 THEN "pass" ELSE "fail"

\* the report of executing code c (the code field is for observation)
RunPytest(o, c) ==
    LET r == RunPytestReport(o, TRUE)
    IN  [success |-> r.success, passed |-> r.passed, failed |-> r.failed,
         errors |-> r.errors, output |-> r.output, code |-> c]

----------------------------------------------------------------------------
(* CodeGenerator.verify_and_refine, generator.py:147-198 *)

\* a loop whose range is empty: no attempt is ever made
AttemptsRemainNever(a, n) == FALSE

\* generator.py:155, the loop continues while attempts remain
AttemptsRemain(a, n) == a < n

\* a loop that ignores the report's success flag
IsSuccessIgnored(result) == FALSE

\* generator.py:174
IsSuccess(result) == result.success

\* a loop that always reports the generic message
IssueOfGeneric(result) == << <<Word("Tests failed during execution")>> >>

\* generator.py:182
IssueOf(result) == IF result.output # <<>> THEN result.output
                   ELSE << <<Word("Tests failed during execution")>> >>

\* Enter the next iteration (progress send, verifier.verify started), or
\* leave the loop when the range is exhausted (lines 193-198).
VR_NextAttempt ==
    /\ pc = "vr_loop"
    /\ IF AttemptsRemain(attempt, max_rounds)
       THEN /\ attempt' = attempt + 1
            /\ trace' = trace \o <<Send("progress", "verifying"),
                                   Send("progress", "setting up"),
                                   Send("progress", "running")>>
            /\ pc' = "vr_running"
            /\ vr' = vr
       ELSE /\ trace' = Append(trace, Send("progress", "max attempts"))
            /\ vr' = Some([code |-> code, verification |-> last_result])
            /\ pc' = "vr_returned"
            /\ attempt' = attempt
    /\ UNCHANGED <<sideVars, sessionVars, cmd, payload, local, exc, code, max_rounds, last_result, issue,
                   ncmds, last_completed, raced>>

\* verifier.verify returns (lines 161-190): record the report, return on
\* success, otherwise derive the issue and start refine_code.
VR_ExecReturn(o) ==
    /\ pc = "vr_running"
    /\ LET result == RunPytest(o, code)
           its == AddIteration(AddIteration(iterations, "verification"),
                               "verification_attempt")
           t1 == trace \o <<Call("vr_verify", RunName(o)),
                            Send("progress", "tests completed")>>
       IN  /\ last_result' = Some(result)
           /\ issue' = IF IsSuccess(result) THEN issue ELSE Some(IssueOf(result))
           /\ iterations' = its
           /\ IF IsSuccess(result)
              THEN /\ trace' = Append(t1, Send("progress", "passed verification"))
                   /\ vr' = Some([code |-> code, verification |-> Some(result)])
                   /\ pc' = "vr_returned"
              ELSE /\ trace' = t1 \o <<Send("progress", "verification failed"),
                                       Send("progress", "refining")>>
                   /\ vr' = vr
                   /\ pc' = "vr_refining"
    /\ UNCHANGED <<sideVars, current_phase, page_knowledge, test_cases, generated_code,
                   browser_manager, cmd, payload, local, exc, code, attempt, max_rounds,
                   ncmds, last_completed, raced>>

\* a loop that drops what refine_code returns and keeps the code it had
VR_RefineReturnDiscarded(resp) ==
    /\ pc = "vr_refining"
    /\ LET r == LLMGenerate(resp)
           t1 == Append(trace, Call("vr_refine", LLMOutcome(resp)))
       IN  IF r.exc # ""
           THEN /\ pc' = "vr_raised"
                /\ exc' = r.exc
                /\ trace' = t1
                /\ UNCHANGED <<iterations, code>>
           ELSE IF r.text = None
           THEN /\ pc' = "vr_raised"
                /\ exc' = "TypeError"
                /\ trace' = t1
                /\ iterations' = AddIteration(iterations, "generation_refinement")
                /\ code' = code
           ELSE /\ pc' = "vr_loop"
                /\ exc' = exc
                /\ trace' = t1
                /\ iterations' = AddIteration(iterations, "generation_refinement")
                /\ code' = code
    /\ UNCHANGED <<sideVars, current_phase, page_knowledge, test_cases, generated_code,
                   browser_manager, cmd, payload, local, attempt, max_rounds, last_result, issue,
                   vr, ncmds, last_completed, raced>>

\* refine_code's LLM call returns (lines 137-145, 190)
VR_RefineReturn(resp) ==
    /\ pc = "vr_refining"
    /\ LET r == LLMGenerate(resp)
           t1 == Append(trace, Call("vr_refine", LLMOutcome(resp)))
       IN  IF r.exc # ""
           THEN /\ pc' = "vr_raised"
                /\ exc' = r.exc
                /\ trace' = t1
                /\ UNCHANGED <<iterations, code>>
           ELSE IF r.text = None
           THEN \* _extract_code(None): TypeError, after add_iteration
                /\ pc' = "vr_raised"
                /\ exc' = "TypeError"
                /\ trace' = t1
                /\ iterations' = AddIteration(iterations, "generation_refinement")
                /\ code' = code
           ELSE /\ pc' = "vr_loop"
                /\ exc' = exc
                /\ trace' = t1
                /\ iterations' = AddIteration(iterations, "generation_refinement")
                /\ code' = ExtractCode(r.text[1])
    /\ UNCHANGED <<sideVars, current_phase, page_knowledge, test_cases, generated_code,
                   browser_manager, cmd, payload, local, attempt, max_rounds, last_result, issue,
                   vr, ncmds, last_completed, raced>>

----------------------------------------------------------------------------
(* The loop on its own: any input code, any budget 1..MaxRounds *)

NoRun == [exc |-> FALSE, rc |-> 0, raw |-> <<>>]

\* the processes that write the report file: the server (TestVerifier.verify
\* inside the API process) and tools/run_verif_screenshot.py
Writers == {"server", "tool"}
NotWriting == [pc |-> "idle", fd |-> 0, off |-> 0, runs |-> 0]
\* no file exists: path 0 is an absent path
NoFiles == [inodes |-> <<>>, report |-> 0, tmp |-> 0]

\* the components exercised on their own are at rest
FileRest ==
    /\ disk = NoFiles
    /\ writers = [w \in Writers |-> NotWriting]
    /\ reader = [pc |-> "idle", result |-> "none"]

BrowserRest ==
    /\ verifier = None
    /\ managers = <<>>
    /\ pending = {}

ExtractorRest ==
    /\ gen = [exc |-> FALSE, text |-> None]
    /\ extracted = None

SideInit ==
    /\ run = NoRun
    /\ report = None
    /\ link = "up"
    /\ FileRest
    /\ BrowserRest
    /\ ExtractorRest

Codes == {ExtractCode(t) : t \in LLMTexts} \cup {ErrorText}

LoopInit ==
    /\ current_phase = Some("generation")
    /\ page_knowledge = None
    /\ test_cases = None
    /\ generated_code = None
    /\ iterations = <<>>
    /\ browser_manager = None
    /\ pc = "vr_loop"
    /\ cmd = "none"
    /\ payload = NoPayload
    /\ code \in Codes
    /\ local = Some(code)       \* the caller's argument
    /\ exc = ""
    /\ attempt = 0
    /\ max_rounds \in 1..MaxRounds
    /\ last_result = None
    /\ issue = None
    /\ vr = None
    /\ trace = <<>>
    /\ ncmds = 0
    /\ last_completed = None
    /\ raced = FALSE
    /\ SideInit

LoopNext ==
    \/ VR_NextAttempt
    \/ \E o \in RunOutcomes : VR_ExecReturn(o)
    \/ \E resp \in LLMResponses : VR_RefineReturn(resp)

LoopSpec == LoopInit /\ [][LoopNext]_vars

----------------------------------------------------------------------------
(* Session orchestrator, main.py *)

\* LLMClient.generate_json, llm_client.py:108-129.  Both branches of lines
\* 111-114 evaluate text.split(""), and str.split raises ValueError on an
\* empty separator ("" in text holds for every text); a None text raises
\* TypeError at line 111.  Either exception is caught at line 123 and the
\* json field is set to None.
SplitEmptySeparator(text) == "ValueError"
ParseJson(text) ==
    IF text = None THEN None
    ELSE IF SplitEmptySeparator(text[1]) = "ValueError" THEN None
    ELSE text

\* explorer.py:54-62, the knowledge built from the analysis
Knowledge(url, json) ==
    [url |-> url, elements |-> IF json # None THEN "parsed" ELSE "empty"]

\* a designer that reads the cases out of whatever the extractor returned
DesignWithoutDefault(json) == [cases |-> "parsed", coverage |-> "parsed"]

\* designer.py:36-40, the design built from the generation
Design(json) ==
    [cases |-> IF json # None THEN "parsed" ELSE "empty",
     coverage |-> IF json # None THEN "parsed" ELSE "empty"]

\* main.py:260, 321, 369, 434, 493 and 200-207: the error event of a handler
ErrorKind(e) == IF e = "NoTokensError" THEN "no_tokens" ELSE "generic"

\* a reset that forgets to clear the generated code
AgentStateResetKeepsCode ==
    /\ current_phase' = None
    /\ page_knowledge' = None
    /\ test_cases' = None
    /\ generated_code' = generated_code
    /\ iterations' = <<>>
    /\ browser_manager' = None

\* AgentState.reset, main.py:50-61, with MetricsTracker.reset, metrics.py:102-105
AgentStateReset ==
    /\ current_phase' = None
    /\ page_knowledge' = None
    /\ test_cases' = None
    /\ generated_code' = None
    /\ iterations' = <<>>
    /\ browser_manager' = None

\* a dispatcher that takes the next message while a handler is suspended
ReceiveWhileBusy(c, pl) ==
    /\ pc # "closed"
    /\ ncmds < MaxCmds
    /\ ncmds' = ncmds + 1
    /\ cmd' = c
    /\ payload' = pl

\* websocket_endpoint receives the next message (main.py:104-108)
Receive(c, pl) ==
    /\ pc = "idle"
    /\ ncmds < MaxCmds
    /\ ncmds' = ncmds + 1
    /\ cmd' = c
    /\ payload' = pl

\* the handler returns to the receive loop having sent its last events
Return(t) == trace' = t /\ pc' = "idle"

\* an exception reaches websocket_endpoint's handler (main.py:139-151):
\* one error event, then the endpoint coroutine ends
EndpointFails(t, e) ==
    /\ trace' = Append(t, Send("error", ErrorKind(e)))
    /\ pc' = "closed"

\* an except clause that returns without sending the error event
HandlerFailsSilently(t, e) == Return(t)

\* a handler's except clause: one classified error event, then return
HandlerFails(t, e) == Return(Append(t, Send("error", ErrorKind(e))))

idleKeep == <<local, exc, loopVars, last_completed, raced>>

(* -------- handle_explore, main.py:153-213 -------- *)

Explore_Receive(url, isDict) ==
    /\ Receive("explore", Payload(url, isDict))
    /\ IF ~isDict
       THEN EndpointFails(<<>>, "AttributeError") /\ local' = local
       ELSE IF url = ""
       THEN Return(<<Send("error", "precondition")>>) /\ local' = local
       ELSE /\ trace' = <<Send("phase_start", "exploration")>>
            /\ pc' = "explore_started"
            /\ local' = Some(url)
    /\ UNCHANGED <<sideVars, sessionVars, exc, loopVars, last_completed, raced>>

\* lines 176-184: build the explorer on the current browser manager, set the
\* phase and start explore()
ExploreSetup(t, bm) ==
    /\ current_phase' = Some("exploration")
    /\ IF bm = None
       THEN \* explorer.browser is None: navigate raises AttributeError
            HandlerFails(Append(t, Send("progress", "navigating")), "AttributeError")
       ELSE /\ trace' = Append(t, Send("progress", "navigating"))
            /\ pc' = "explore_browsing"

\* lines 171-173: launch a browser when the session holds none
Explore_Launch(ok) ==
    /\ pc = "explore_started"
    /\ IF browser_manager = None
       THEN /\ browser_manager' = Some("bm")
            /\ IF ok
               THEN /\ trace' = Append(trace, Call("browser", "launched"))
                    /\ pc' = "explore_launched"
               ELSE HandlerFails(Append(trace, Call("browser", "failed")), "Error")
            /\ current_phase' = current_phase
       ELSE /\ ok
            /\ ExploreSetup(trace, browser_manager)
            /\ browser_manager' = browser_manager
    /\ UNCHANGED <<sideVars, page_knowledge, test_cases, generated_code, iterations,
                   cmd, payload, local, exc, loopVars, ncmds, last_completed, raced>>

Explore_Setup ==
    /\ pc = "explore_launched"
    /\ ExploreSetup(trace, browser_manager)
    /\ UNCHANGED <<sideVars, page_knowledge, test_cases, generated_code, iterations,
                   browser_manager, cmd, payload, local, exc, loopVars, ncmds,
                   last_completed, raced>>

\* explorer.py:25-67: navigation, DOM extraction and screenshot return, then
\* the analysis is generated and recorded
Explore_Browsed(ok, resp) ==
    /\ pc = "explore_browsing"
    /\ IF ~ok
       THEN /\ HandlerFails(Append(trace, Call("browser", "failed")), "Error")
            /\ UNCHANGED <<iterations, local>>
       ELSE LET r == LLMGenerate(resp)
                t1 == trace \o <<Call("browser", "ok"),
                                 Send("progress", "analyzing"),
                                 Send("progress", "building"),
                                 Call("llm", LLMOutcome(resp))>>
            IN  IF r.exc # ""
                THEN /\ HandlerFails(t1, r.exc)
                     /\ UNCHANGED <<iterations, local>>
                ELSE /\ iterations' = AddIteration(iterations, "exploration")
                     /\ local' = Some(Knowledge(local[1], ParseJson(r.text)))
                     /\ trace' = Append(t1, Send("progress", "found elements"))
                     /\ pc' = "explore_built"
    /\ UNCHANGED <<sideVars, current_phase, page_knowledge, test_cases, generated_code,
                   browser_manager, cmd, payload, exc, loopVars, ncmds, last_completed,
                   raced>>

\* an exploration that drops what was derived from the page explored before
Explore_StoreInvalidating ==
    /\ pc = "explore_built"
    /\ page_knowledge' = local
    /\ test_cases' = None
    /\ generated_code' = None
    /\ last_completed' = Some("exploration")
    /\ Return(trace \o <<Store("page_knowledge"),
                         Send("phase_complete", "exploration")>>)
    /\ UNCHANGED <<sideVars, current_phase, iterations,
                   browser_manager, cmd, payload, local, exc, loopVars, ncmds, raced>>

\* lines 185-198
Explore_Store ==
    /\ pc = "explore_built"
    /\ page_knowledge' = local
    /\ last_completed' = Some("exploration")
    /\ Return(trace \o <<Store("page_knowledge"),
                         Send("phase_complete", "exploration")>>)
    /\ UNCHANGED <<sideVars, current_phase, test_cases, generated_code, iterations,
                   browser_manager, cmd, payload, local, exc, loopVars, ncmds, raced>>

(* -------- handle_design, main.py:215-271 -------- *)

\* a handler that skips its precondition check
DesignPreconditionSkipped(pk) == TRUE

\* line 217
DesignPrecondition(pk) == Truthy(pk)

Design_Receive ==
    /\ Receive("design", NoPayload)
    /\ IF ~DesignPrecondition(page_knowledge)
       THEN Return(<<Send("error", "precondition")>>)
       ELSE /\ trace' = <<Send("phase_start", "design")>>
            /\ pc' = "design_started"
    /\ UNCHANGED <<sideVars, sessionVars, idleKeep>>

\* lines 234-243 and designer.py:17-20
Design_Call ==
    /\ pc = "design_started"
    /\ current_phase' = Some("design")
    /\ local' = page_knowledge
    /\ trace' = Append(trace, Send("progress", "analyzing"))
    /\ pc' = "design_progress"
    /\ UNCHANGED <<sideVars, page_knowledge, test_cases, generated_code, iterations,
                   browser_manager, cmd, payload, exc, loopVars, ncmds, last_completed,
                   raced>>

\* designer.py:23-40
Design_Generated(resp) ==
    /\ pc = "design_progress"
    /\ IF local = None
       THEN \* knowledge['url'] on None: TypeError (designer.py:48)
            /\ HandlerFails(trace, "TypeError")
            /\ UNCHANGED <<iterations, local>>
       ELSE LET r == LLMGenerate(resp)
                t1 == Append(trace, Call("llm", LLMOutcome(resp)))
            IN  IF r.exc # ""
                THEN /\ HandlerFails(t1, r.exc)
                     /\ UNCHANGED <<iterations, local>>
                ELSE /\ iterations' = AddIteration(iterations, "design")
                     /\ local' = Some(Design(ParseJson(r.text)))
                     /\ trace' = Append(t1, Send("progress", "generated cases"))
                     /\ pc' = "design_built"
    /\ UNCHANGED <<sideVars, current_phase, page_knowledge, test_cases, generated_code,
                   browser_manager, cmd, payload, exc, loopVars, ncmds, last_completed,
                   raced>>

\* lines 244-256
Design_Store ==
    /\ pc = "design_built"
    /\ test_cases' = local
    /\ last_completed' = Some("design")
    /\ Return(trace \o <<Store("test_cases"), Send("phase_complete", "design")>>)
    /\ UNCHANGED <<sideVars, current_phase, page_knowledge, generated_code, iterations,
                   browser_manager, cmd, payload, local, exc, loopVars, ncmds, raced>>

(* -------- handle_refine, main.py:274-324 -------- *)

\* line 276
RefinePrecondition(tc) == Truthy(tc)

Refine_Receive(isDict) ==
    /\ Receive("refine", Payload("", isDict))
    /\ IF ~RefinePrecondition(test_cases)
       THEN Return(<<Send("error", "precondition")>>)
       ELSE IF ~isDict
       THEN EndpointFails(<<>>, "AttributeError")
       ELSE /\ trace' = <<Send("phase_start", "design_refinement")>>
            /\ pc' = "refine_started"
    /\ UNCHANGED <<sideVars, sessionVars, idleKeep>>

\* a refinement that loses the cases when it gets no structured result
RefinedCasesDropped(json, current) ==
    IF json # None THEN Some(Design(json)) ELSE None

\* designer.py:111-115 and main.py:299-303: the refined cases and coverage,
\* or the current ones when the generation gave no structured result
RefinedCases(json, current) ==
    IF json # None THEN Some(Design(json)) ELSE current

\* lines 293-298 and designer.py:89-92
Refine_Call ==
    /\ pc = "refine_started"
    /\ current_phase' = Some("design_refinement")
    /\ local' = test_cases
    /\ trace' = Append(trace, Send("progress", "refining cases"))
    /\ pc' = "refine_progress"
    /\ UNCHANGED <<sideVars, page_knowledge, test_cases, generated_code, iterations,
                   browser_manager, cmd, payload, exc, loopVars, ncmds, last_completed,
                   raced>>

\* designer.py:103-115 and main.py:300-317
Refine_Generated(resp) ==
    /\ pc = "refine_progress"
    /\ LET r == LLMGenerate(resp)
           t1 == Append(trace, Call("llm", LLMOutcome(resp)))
           json == ParseJson(r.text)
       IN  IF r.exc # ""
           THEN /\ HandlerFails(t1, r.exc)
                /\ UNCHANGED <<iterations, test_cases, last_completed>>
           ELSE /\ iterations' = AddIteration(iterations, "design_refinement")
                /\ IF json = None /\ local = None
                   THEN \* current_cases["test_cases"] on None (designer.py:112)
                        /\ HandlerFails(t1, "TypeError")
                        /\ UNCHANGED <<test_cases, last_completed>>
                   ELSE IF test_cases = None
                   THEN \* agent_state.test_cases.get on None (main.py:301)
                        /\ HandlerFails(t1, "AttributeError")
                        /\ UNCHANGED <<test_cases, last_completed>>
                   ELSE /\ test_cases' = RefinedCases(json, local)
                        /\ last_completed' = Some("design_refinement")
                        /\ Return(t1 \o <<Store("test_cases"),
                                          Send("phase_complete", "design_refinement")>>)
    /\ UNCHANGED <<sideVars, current_phase, page_knowledge, generated_code,
                   browser_manager, cmd, payload, local, exc, loopVars, ncmds, raced>>

(* -------- handle_refine_code, main.py:327-372 -------- *)

\* a refine_code that does not look at the stored code
RefineCodePreconditionSkipped(gc) == TRUE

\* line 329
RefineCodePrecondition(gc) == Truthy(gc)

RefineCode_Receive(isDict) ==
    /\ Receive("refine_code", Payload("", isDict))
    /\ IF ~RefineCodePrecondition(generated_code)
       THEN Return(<<Send("error", "precondition")>>)
       ELSE IF ~isDict
       THEN EndpointFails(<<>>, "AttributeError")
       ELSE /\ trace' = <<Send("phase_start", "generation_refinement")>>
            /\ pc' = "rc_started"
    /\ UNCHANGED <<sideVars, sessionVars, idleKeep>>

\* lines 346-351 and generator.py:119-122
RefineCode_Call ==
    /\ pc = "rc_started"
    /\ current_phase' = Some("generation_refinement")
    /\ local' = generated_code
    /\ trace' = Append(trace, Send("progress", "refining"))
    /\ pc' = "rc_progress"
    /\ UNCHANGED <<sideVars, page_knowledge, test_cases, generated_code, iterations,
                   browser_manager, cmd, payload, exc, loopVars, ncmds, last_completed,
                   raced>>

\* generator.py:137-145 and main.py:352-365
RefineCode_Generated(resp) ==
    /\ pc = "rc_progress"
    /\ LET r == LLMGenerate(resp)
           t1 == Append(trace, Call("llm", LLMOutcome(resp)))
       IN  IF r.exc # ""
           THEN /\ HandlerFails(t1, r.exc)
                /\ UNCHANGED <<iterations, generated_code, last_completed>>
           ELSE /\ iterations' = AddIteration(iterations, "generation_refinement")
                /\ IF r.text = None
                   THEN \* _extract_code(None): TypeError (generator.py:102)
                        /\ HandlerFails(t1, "TypeError")
                        /\ UNCHANGED <<generated_code, last_completed>>
                   ELSE /\ generated_code' = Some(ExtractCode(r.text[1]))
                        /\ last_completed' = Some("generation_refinement")
                        /\ Return(t1 \o <<Store("generated_code"),
                                          Send("phase_complete", "generation_refinement")>>)
    /\ UNCHANGED <<sideVars, current_phase, page_knowledge, test_cases,
                   browser_manager, cmd, payload, local, exc, loopVars, ncmds, raced>>

(* -------- handle_generate, main.py:374-445 -------- *)

\* a handler that skips its precondition check
GeneratePreconditionSkipped(tc) == TRUE

\* line 376
GeneratePrecondition(tc) == Truthy(tc)

Generate_Receive ==
    /\ Receive("generate", NoPayload)
    /\ IF ~GeneratePrecondition(test_cases)
       THEN Return(<<Send("error", "precondition")>>)
       ELSE /\ trace' = <<Send("phase_start", "generation")>>
            /\ pc' = "gen_started"
    /\ UNCHANGED <<sideVars, sessionVars, idleKeep>>

\* lines 393-409 and generator.py:17-20
Generate_Call ==
    /\ pc = "gen_started"
    /\ current_phase' = Some("generation")
    /\ local' = Some([pk |-> page_knowledge, tc |-> test_cases])
    /\ trace' = Append(trace, Send("progress", "generating"))
    /\ pc' = "gen_progress"
    /\ UNCHANGED <<sideVars, page_knowledge, test_cases, generated_code, iterations,
                   browser_manager, cmd, payload, exc, loopVars, ncmds, last_completed,
                   raced>>

\* generator.py:23-38, then verify_and_refine is entered with the default
\* budget (main.py:412)
Generate_Generated(resp) ==
    /\ pc = "gen_progress"
    /\ IF local[1].pk = None \/ local[1].tc = None
       THEN \* knowledge.get / test_cases.get on None (generator.py:45, 50)
            /\ HandlerFails(trace, "AttributeError")
            /\ UNCHANGED <<iterations, local, loopVars>>
       ELSE LET r == LLMGenerate(resp)
                t1 == Append(trace, Call("llm", LLMOutcome(resp)))
            IN  IF r.exc # ""
                THEN /\ HandlerFails(t1, r.exc)
                     /\ UNCHANGED <<iterations, local, loopVars>>
                ELSE /\ iterations' = AddIteration(iterations, "generation")
                     /\ IF r.text = None
                        THEN \* _extract_code(None): TypeError (generator.py:102)
                             /\ HandlerFails(t1, "TypeError")
                             /\ UNCHANGED <<local, loopVars>>
                        ELSE /\ code' = ExtractCode(r.text[1])
                             /\ local' = Some(code')
                             /\ attempt' = 0
                             /\ max_rounds' = DefaultMaxRounds
                             /\ last_result' = None
                             /\ issue' = None
                             /\ vr' = None
                             /\ trace' = Append(t1, Send("progress", "code generated"))
                             /\ pc' = "vr_loop"
    /\ UNCHANGED <<sideVars, current_phase, page_knowledge, test_cases, generated_code,
                   browser_manager, cmd, payload, exc, ncmds, last_completed, raced>>

\* lines 414-430
Generate_Store ==
    /\ pc = "vr_returned"
    /\ cmd = "generate"
    /\ generated_code' = Some(vr[1].code)
    /\ last_completed' = Some("generation")
    /\ Return(trace \o <<Store("generated_code"),
                         Send("phase_complete", "generation")>>)
    /\ UNCHANGED <<sideVars, current_phase, page_knowledge, test_cases, iterations,
                   browser_manager, cmd, payload, local, exc, loopVars, ncmds, raced>>

\* a generate that keeps the code in hand when the loop raises
Generate_RaisedStoring ==
    /\ pc = "vr_raised"
    /\ cmd = "generate"
    /\ generated_code' = Some(code)
    /\ HandlerFails(trace, exc)
    /\ exc' = ""
    /\ UNCHANGED <<sideVars, current_phase, page_knowledge, test_cases, iterations,
                   browser_manager, cmd, payload, local, loopVars, ncmds, last_completed,
                   raced>>

\* lines 432-445: an exception raised inside verify_and_refine
Generate_Raised ==
    /\ pc = "vr_raised"
    /\ cmd = "generate"
    /\ HandlerFails(trace, exc)
    /\ exc' = ""
    /\ UNCHANGED <<sideVars, sessionVars, cmd, payload, local, loopVars, ncmds, last_completed,
                   raced>>

(* -------- handle_verify, main.py:447-504 -------- *)

\* line 449
VerifyPrecondition(gc) == Truthy(gc)

Verify_Receive ==
    /\ Receive("verify", NoPayload)
    /\ IF ~VerifyPrecondition(generated_code)
       THEN Return(<<Send("error", "precondition")>>)
       ELSE /\ trace' = <<Send("phase_start", "verification")>>
            /\ pc' = "verify_started"
    /\ UNCHANGED <<sideVars, sessionVars, idleKeep>>

\* lines 466-475 and verifier.py:25-58
Verify_Call ==
    /\ pc = "verify_started"
    /\ current_phase' = Some("verification")
    /\ local' = generated_code
    /\ IF generated_code = None
       THEN \* f.write(None): TypeError (verifier.py:48)
            HandlerFails(Append(trace, Send("progress", "setting up")), "TypeError")
       ELSE /\ trace' = trace \o <<Send("progress", "setting up"),
                                   Send("progress", "running")>>
            /\ pc' = "verify_running"
    /\ UNCHANGED <<sideVars, page_knowledge, test_cases, generated_code, iterations,
                   browser_manager, cmd, payload, exc, loopVars, ncmds, last_completed,
                   raced>>

\* verifier.py:58-110 and main.py:477-489
Verify_Return(o) ==
    /\ pc = "verify_running"
    /\ iterations' = AddIteration(iterations, "verification")
    /\ last_completed' = Some("verification")
    /\ Return(trace \o <<Call("pytest", RunName(o)),
                         Send("progress", "tests completed"),
                         Send("phase_complete", "verification")>>)
    /\ UNCHANGED <<sideVars, current_phase, page_knowledge, test_cases, generated_code,
                   browser_manager, cmd, payload, local, exc, loopVars, ncmds, raced>>

(* -------- the other commands, main.py:123-135, 506-514 -------- *)

Chat_Receive(isDict) ==
    /\ Receive("chat", Payload("", isDict))
    /\ IF isDict
       THEN Return(<<Send("chat_response", "")>>)
       ELSE EndpointFails(<<>>, "AttributeError")
    /\ UNCHANGED <<sideVars, sessionVars, idleKeep>>

\* lines 125-130
Reset_Receive ==
    /\ Receive("reset", NoPayload)
    /\ AgentStateReset
    /\ last_completed' = None
    /\ raced' = FALSE
    /\ Return(<<Send("info", "reset")>>)
    /\ UNCHANGED <<sideVars, local, exc, loopVars>>

\* lines 131-135
Unknown_Receive ==
    /\ Receive("unknown", NoPayload)
    /\ Return(<<Send("error", "unknown_command")>>)
    /\ UNCHANGED <<sideVars, sessionVars, idleKeep>>

\* lines 104-108: json.loads raises, or the message is not an object
Malformed_Receive ==
    /\ Receive("malformed", Payload("", FALSE))
    /\ EndpointFails(<<>>, "ValueError")
    /\ UNCHANGED <<sideVars, sessionVars, idleKeep>>

\* lines 96-98: the client opens a new connection after the endpoint ended
Connect ==
    /\ pc = "closed"
    /\ pc' = "idle"
    /\ UNCHANGED <<sideVars, sessionVars, cmd, payload, local, exc, loopVars, trace, ncmds,
                   last_completed, raced>>

\* a reset that cancels the handler in flight
ResetEndpointCancels ==
    /\ AgentStateReset
    /\ last_completed' = None
    /\ raced' = FALSE
    /\ pc' = IF pc = "closed" THEN "closed" ELSE "idle"
    /\ local' = None
    /\ UNCHANGED <<sideVars, cmd, payload, exc, loopVars, trace, ncmds>>

\* POST /reset, main.py:90-94: runs whenever the websocket coroutine is
\* suspended or waiting for a message
ResetEndpoint ==
    /\ AgentStateReset
    /\ last_completed' = None
    /\ raced' = (pc \notin {"idle", "closed"})
    /\ UNCHANGED <<sideVars, pc, cmd, payload, local, exc, loopVars, trace, ncmds>>

----------------------------------------------------------------------------
(* The session: one websocket connection and the reset endpoint *)

\* main.py:63, agent_state = AgentState(), and no message received yet
Rest ==
    /\ current_phase = None
    /\ page_knowledge = None
    /\ test_cases = None
    /\ generated_code = None
    /\ iterations = <<>>
    /\ browser_manager = None
    /\ pc = "idle"
    /\ cmd = "none"
    /\ payload = NoPayload
    /\ local = None
    /\ exc = ""
    /\ code = <<>>
    /\ attempt = 0
    /\ max_rounds = DefaultMaxRounds
    /\ last_result = None
    /\ issue = None
    /\ vr = None
    /\ trace = <<>>
    /\ ncmds = 0
    /\ last_completed = None
    /\ raced = FALSE

Init == Rest /\ SideInit

Next ==
    \/ \E u \in URLs \cup {""}, d \in BOOLEAN : Explore_Receive(u, d)
    \/ \E ok \in BOOLEAN : Explore_Launch(ok)
    \/ Explore_Setup
    \/ \E ok \in BOOLEAN, resp \in LLMResponses : Explore_Browsed(ok, resp)
    \/ Explore_Store
    \/ Design_Receive
    \/ Design_Call
    \/ \E resp \in LLMResponses : Design_Generated(resp)
    \/ Design_Store
    \/ \E d \in BOOLEAN : Refine_Receive(d)
    \/ Refine_Call
    \/ \E resp \in LLMResponses : Refine_Generated(resp)
    \/ \E d \in BOOLEAN : RefineCode_Receive(d)
    \/ RefineCode_Call
    \/ \E resp \in LLMResponses : RefineCode_Generated(resp)
    \/ Generate_Receive
    \/ Generate_Call
    \/ \E resp \in LLMResponses : Generate_Generated(resp)
    \/ VR_NextAttempt
    \/ \E o \in RunOutcomes : VR_ExecReturn(o)
    \/ \E resp \in LLMResponses : VR_RefineReturn(resp)
    \/ Generate_Store
    \/ Generate_Raised
    \/ Verify_Receive
    \/ Verify_Call
    \/ \E o \in RunOutcomes : Verify_Return(o)
    \/ \E d \in BOOLEAN : Chat_Receive(d)
    \/ Reset_Receive
    \/ Unknown_Receive
    \/ Malformed_Receive
    \/ Connect
    \/ ResetEndpoint

Spec == Init /\ [][Next]_vars

----------------------------------------------------------------------------
(* The report parser on its own: _run_pytest over any captured output *)

\* pytest's final line, "== 1 passed, 1 failed, 1 error in 2.10s ==": counts
\* of zero are left out, and without any count it reads "no tests ran"
SummaryOf(p, f, e) ==
    <<Rule>>
        \o (IF p > 0 THEN <<Num(p), Word("passed")>> ELSE <<>>)
        \o (IF f > 0 THEN <<Num(f), Word("failed")>> ELSE <<>>)
        \o (IF e > 0 THEN <<Num(e), Word("error")>> ELSE <<>>)
        \o (IF p + f + e = 0 THEN <<Name>> ELSE <<>>)
        \o <<In, Dur, Rule>>

Summaries == {SummaryOf(p, f, e) : p \in 0..1, f \in 0..1, e \in 0..1}

Lines ==
    Summaries \cup
    { PassedLine,                       \* t.py::test_login PASSED
      <<NameN(2), Word("passed")>>,     \* t.py::test_login_2 PASSED
      <<Name, Word("failed")>>,         \* t.py::test_login FAILED
      <<Word("error"), Name>>,          \* ERROR t.py - ImportError
      <<Num(1), Longer("passed")>>,     \* 1 passedx
      <<Num(2), Word("errors")>>,       \* 2 errors
      <<Rule, Word("error"), In, Dur, Rule>>,   \* == error in 2.10s ==
      <<Name>>,                         \* other text
      <<>> }                            \* a blank line

RECURSIVE SeqsUpTo(_, _)
SeqsUpTo(S, n) ==
    IF n = 0 THEN {<<>>}
    ELSE LET shorter == SeqsUpTo(S, n - 1)
         IN  shorter \cup {Append(q, x) : q \in shorter, x \in S}

\* pytest.ExitCode: OK, TESTS_FAILED, INTERRUPTED, NO_TESTS_COLLECTED
ExitCodes == {0, 1, 2, 5}

Runs(n) == [exc : {FALSE}, rc : ExitCodes, raw : SeqsUpTo(Lines, n)]
        \cup [exc : {TRUE}, rc : {1}, raw : {<<>>}]

ParserInit ==
    /\ Rest
    /\ run \in Runs(MaxLines)
    /\ report = None
    /\ link = "up"
    /\ FileRest
    /\ BrowserRest
    /\ ExtractorRest

\* _run_pytest returns, verifier.py:204-228
RunPytestReturns ==
    /\ report = None
    /\ report' = Some(RunPytestReport(run, link = "up"))
    /\ UNCHANGED <<mainVars, run, link, disk, writers, reader, gen, extracted, browserVars>>

ParserNext == RunPytestReturns

ParserSpec == ParserInit /\ [][ParserNext]_vars

----------------------------------------------------------------------------
(* The loop over a transport that can fail: websocket.send_json raises once
   the client is gone, and no send of generator.py or verifier.py is guarded *)

Unsent(detail) == <<"unsent", "progress", detail>>

\* the client goes away while the loop is suspended
LinkFails ==
    /\ link = "up"
    /\ pc \in {"vr_loop", "vr_running", "vr_refining"}
    /\ link' = "down"
    /\ UNCHANGED <<mainVars, run, report, disk, writers, reader, gen, extracted, browserVars>>

\* generator.py:156 or 193: the send raises out of verify_and_refine
VR_NextAttemptUnsent ==
    /\ pc = "vr_loop"
    /\ link = "down"
    /\ trace' = Append(trace, Unsent(IF AttemptsRemain(attempt, max_rounds)
                                     THEN "verifying" ELSE "max attempts"))
    /\ exc' = "SendError"
    /\ pc' = "vr_raised"
    /\ UNCHANGED <<sessionVars, cmd, payload, local, loopVars, ncmds,
                   last_completed, raced, sideVars>>

\* pytest returns to a dead transport: the send of verifier.py:202 raises
\* inside the try block of _run_pytest, which turns the finished run into the
\* error report; verify returns it (lines 58-110), the loop records it
\* (generator.py:162-172) and its next send (line 184) raises.
VR_ExecReturnUnsent(o) ==
    /\ pc = "vr_running"
    /\ link = "down"
    /\ LET r == RunPytestReport(o, FALSE)
           result == [success |-> r.success, passed |-> r.passed,
                      failed |-> r.failed, errors |-> r.errors,
                      output |-> r.output, code |-> code]
       IN  /\ last_result' = Some(result)
           /\ issue' = IF IsSuccess(result) THEN issue ELSE Some(IssueOf(result))
           /\ iterations' = AddIteration(AddIteration(iterations, "verification"),
                                         "verification_attempt")
           /\ trace' = trace \o <<Call("vr_verify", RunName(o)),
                                  Unsent("tests completed"),
                                  Unsent(IF IsSuccess(result)
                                         THEN "passed verification"
                                         ELSE "verification failed")>>
           /\ exc' = "SendError"
           /\ pc' = "vr_raised"
    /\ UNCHANGED <<current_phase, page_knowledge, test_cases, generated_code,
                   browser_manager, cmd, payload, local, code, attempt, max_rounds,
                   vr, ncmds, last_completed, raced, sideVars>>

\* the same steps while the sends go through
VR_NextAttemptSent == link = "up" /\ VR_NextAttempt
VR_ExecReturnSent(o) == link = "up" /\ VR_ExecReturn(o)

LossyNext ==
    \/ LinkFails
    \/ VR_NextAttemptSent
    \/ VR_NextAttemptUnsent
    \/ \E o \in RunOutcomes : VR_ExecReturnSent(o)
    \/ \E o \in RunOutcomes : VR_ExecReturnUnsent(o)
    \/ \E resp \in LLMResponses : VR_RefineReturn(resp)

LossySpec == LoopInit /\ [][LossyNext]_vars

----------------------------------------------------------------------------
(* The latest-report file: verification_with_screenshots.json in backend/,
   written by TestVerifier.verify (verifier.py:93-108) and by
   tools/run_verif_screenshot.py (lines 50-60), read by
   get_verification_report (main.py:78-88) *)

\* A file is [len, torn]: len chunks of a report are in it, and torn tells
\* that they are not the chunks of one report (a hole, or two writers' data).
EmptyFile == [len |-> 0, torn |-> FALSE]
Complete(f) == f.len = ReportChunks /\ ~f.torn

\* open(path, "w"): truncates the file the path names, or creates one;
\* gives the disk and the inode opened
OpenW(d, path) ==
    IF path # 0
    THEN [inodes |-> [d.inodes EXCEPT ![path] = EmptyFile], fd |-> path]
    ELSE [inodes |-> Append(d.inodes, EmptyFile), fd |-> Len(d.inodes) + 1]

\* write of one chunk at offset off through a descriptor
WriteChunk(f, off) ==
    [len |-> IF off + 1 > f.len THEN off + 1 ELSE f.len,
     torn |-> f.torn \/ off # f.len]

\* the server is one thread: its verifier's write block and its report
\* endpoint contain no await, so they exclude each other
ServerBusy == writers["server"].pc # "idle" \/ reader.pc # "idle"

\* verifier.py:99, open(tmp_path, "w"); the tool calls verify at line 50
W_OpenTmp(w) ==
    /\ writers[w].pc = "idle"
    /\ writers[w].runs < MaxReports
    /\ w = "server" => ~ServerBusy
    /\ LET o == OpenW(disk, disk.tmp)
       IN  /\ disk' = [disk EXCEPT !.inodes = o.inodes, !.tmp = o.fd]
           /\ writers' = [writers EXCEPT ![w] = [pc |-> "tmp_open", fd |-> o.fd,
                                                 off |-> 0, runs |-> @.runs + 1]]
    /\ UNCHANGED <<mainVars, run, report, link, reader, gen, extracted, browserVars>>

\* verifier.py:100-103, json.dump flushes a chunk; the file is closed after
\* the last one
W_WriteTmp(w) ==
    /\ writers[w].pc = "tmp_open"
    /\ LET fd == writers[w].fd
           off == writers[w].off
       IN  /\ disk' = [disk EXCEPT !.inodes[fd] = WriteChunk(@, off)]
           /\ writers' = [writers EXCEPT ![w].off = off + 1,
                             ![w].pc = IF off + 1 = ReportChunks
                                       THEN "tmp_closed" ELSE "tmp_open"]
    /\ UNCHANGED <<mainVars, run, report, link, reader, gen, extracted, browserVars>>

\* verifier.py:105, os.replace(tmp_path, report_path); FileNotFoundError
\* when another writer has renamed the temporary file away
Replace(d) ==
    IF d.tmp = 0 THEN d
    ELSE [inodes |-> d.inodes, report |-> d.tmp, tmp |-> 0]

\* verifier.py:104-108: the rename, its failure swallowed
W_Replace(w) ==
    /\ writers[w].pc = "tmp_closed"
    /\ disk' = Replace(disk)
    /\ writers' = [writers EXCEPT ![w].pc = IF w = "tool" THEN "verified" ELSE "idle",
                                  ![w].fd = 0, ![w].off = 0]
    /\ UNCHANGED <<mainVars, run, report, link, reader, gen, extracted, browserVars>>

\* run_verif_screenshot.py:60, out_path.write_text opens the report path
\* itself for writing
T_OpenOut ==
    /\ writers["tool"].pc = "verified"
    /\ LET o == OpenW(disk, disk.report)
       IN  /\ disk' = [disk EXCEPT !.inodes = o.inodes, !.report = o.fd]
           /\ writers' = [writers EXCEPT !["tool"].pc = "out_open",
                                         !["tool"].fd = o.fd, !["tool"].off = 0]
    /\ UNCHANGED <<mainVars, run, report, link, reader, gen, extracted, browserVars>>

\* run_verif_screenshot.py:60, the text reaches the file chunk by chunk;
\* the tool ends after the last one
T_WriteOut ==
    /\ writers["tool"].pc = "out_open"
    /\ LET fd == writers["tool"].fd
           off == writers["tool"].off
       IN  /\ disk' = [disk EXCEPT !.inodes[fd] = WriteChunk(@, off)]
           /\ writers' = [writers EXCEPT !["tool"].off = off + 1,
                             !["tool"].pc = IF off + 1 = ReportChunks
                                            THEN "idle" ELSE "out_open"]
    /\ UNCHANGED <<mainVars, run, report, link, reader, gen, extracted, browserVars>>

\* main.py:82, report_path.exists()
R_Exists ==
    /\ reader.pc = "idle"
    /\ writers["server"].pc = "idle"
    /\ reader' = IF disk.report # 0
                 THEN [pc |-> "reading", result |-> reader.result]
                 ELSE [pc |-> "idle", result |-> "not_found"]
    /\ UNCHANGED <<mainVars, run, report, link, disk, writers, gen, extracted, browserVars>>

\* main.py:83-87, read_text and json.loads: the report, or status 500 when
\* the text is not one whole JSON document
R_Read ==
    /\ reader.pc = "reading"
    /\ reader' = [pc |-> "idle",
                  result |-> IF Complete(disk.inodes[disk.report])
                             THEN "report" ELSE "partial"]
    /\ UNCHANGED <<mainVars, run, report, link, disk, writers, gen, extracted, browserVars>>

FileNext ==
    \/ \E w \in Writers : W_OpenTmp(w)
    \/ \E w \in Writers : W_WriteTmp(w)
    \/ \E w \in Writers : W_Replace(w)
    \/ T_OpenOut
    \/ T_WriteOut
    \/ R_Exists
    \/ R_Read

FileSpec == Init /\ [][FileNext]_vars

----------------------------------------------------------------------------
(* CopilotClient.generate_json, llm_client.py:193-284 *)

\* A text is a sequence of characters; the two fence markers count as one
\* character each.
SP == " "
DQ == "dq"                      \* the double quote
SQ == "sq"                      \* the single quote
SMART_DQ == "smart_dq"          \* a typographic double quote
SMART_SQ == "smart_sq"          \* a typographic single quote
FENCE_JSON == "fence_json"      \* the fence marker followed by json
ONE == "1"                      \* a digit

\* str.strip
RECURSIVE StripSpaces(_)
StripSpaces(t) ==
    IF t = <<>> THEN <<>>
    ELSE IF Head(t) = SP THEN StripSpaces(Tail(t))
    ELSE IF t[Len(t)] = SP THEN StripSpaces(SubSeq(t, 1, Len(t) - 1))
    ELSE t

(* -------- json.loads -------- *)

\* first index >= i that does not hold a space, Len(s) + 1 when there is none
SkipWs(s, i) ==
    LET rest == {j \in i..Len(s) : s[j] # SP}
    IN  IF rest = {} THEN Len(s) + 1 ELSE MinOf(rest)

NoParse == [ok |-> FALSE, val |-> <<>>, next |-> 0]
Parse(v, n) == [ok |-> TRUE, val |-> v, next |-> n]

\* a string literal that opens at i
ParseString(s, i) ==
    LET j == IndexOf(s, {DQ}, i + 1)
    IN  IF j = 0 THEN NoParse ELSE Parse(<<"str", SubSeq(s, i + 1, j - 1)>>, j + 1)

\* a number that begins at i
ParseNumber(s, i) ==
    LET stop == {j \in i..Len(s) : s[j] # ONE}
        end == IF stop = {} THEN Len(s) + 1 ELSE MinOf(stop)
    IN  Parse(<<"num", SubSeq(s, i, end - 1)>>, end)

\* a dict assignment: a repeated key keeps its place and takes the new value
Put(members, k, v) ==
    IF \E n \in 1..Len(members) : members[n][1] = k
    THEN [n \in 1..Len(members) |->
             IF members[n][1] = k THEN <<k, v>> ELSE members[n]]
    ELSE Append(members, <<k, v>>)

RECURSIVE ParseValue(_, _), ParseElements(_, _, _), ParseMembers(_, _, _)

\* the value that begins at i
ParseValue(s, i) ==
    IF i > Len(s) THEN NoParse
    ELSE IF s[i] = DQ THEN ParseString(s, i)
    ELSE IF s[i] = ONE THEN ParseNumber(s, i)
    ELSE IF s[i] = "["
    THEN LET j == SkipWs(s, i + 1)
         IN  IF j <= Len(s) /\ s[j] = "]" THEN Parse(<<"arr", <<>> >>, j + 1)
             ELSE ParseElements(s, j, <<>>)
    ELSE IF s[i] = "{"
    THEN LET j == SkipWs(s, i + 1)
         IN  IF j <= Len(s) /\ s[j] = "}" THEN Parse(<<"obj", <<>> >>, j + 1)
             ELSE ParseMembers(s, j, <<>>)
    ELSE NoParse

\* the elements of an array from i on, acc those read so far
ParseElements(s, i, acc) ==
    LET v == ParseValue(s, i)
        j == SkipWs(s, v.next)
    IN  IF ~v.ok \/ j > Len(s) THEN NoParse
        ELSE IF s[j] = "]" THEN Parse(<<"arr", Append(acc, v.val)>>, j + 1)
        ELSE IF s[j] = "," THEN ParseElements(s, SkipWs(s, j + 1), Append(acc, v.val))
        ELSE NoParse

\* the members of an object from i on, acc those read so far
ParseMembers(s, i, acc) ==
    IF i > Len(s) \/ s[i] # DQ THEN NoParse
    ELSE LET k == ParseString(s, i)
             c == SkipWs(s, k.next)
         IN  IF ~k.ok \/ c > Len(s) \/ s[c] # ":" THEN NoParse
             ELSE LET v == ParseValue(s, SkipWs(s, c + 1))
                      j == SkipWs(s, v.next)
                  IN  IF ~v.ok \/ j > Len(s) THEN NoParse
                      ELSE IF s[j] = "}"
                      THEN Parse(<<"obj", Put(acc, k.val, v.val)>>, j + 1)
                      ELSE IF s[j] = ","
                      THEN ParseMembers(s, SkipWs(s, j + 1), Put(acc, k.val, v.val))
                      ELSE NoParse

\* json.loads(s): the value, or ok FALSE when it raises JSONDecodeError
JsonLoads(s) ==
    LET v == ParseValue(s, SkipWs(s, 1))
    IN  IF v.ok /\ SkipWs(s, v.next) > Len(s) THEN v ELSE NoParse

\* a try_load without its except clause
TryLoadUnguarded(s) ==
    IF JsonLoads(s).ok THEN [exc |-> FALSE, val |-> Some(JsonLoads(s).val)]
    ELSE [exc |-> TRUE, val |-> None]

\* llm_client.py:230-234, try_load: None instead of the exception
TryLoad(s) ==
    IF JsonLoads(s).ok THEN [exc |-> FALSE, val |-> Some(JsonLoads(s).val)]
    ELSE [exc |-> FALSE, val |-> None]

(* -------- the extraction chain -------- *)

\* lines 214-219: the text inside the first fence, or the whole text
Snippet(text) ==
    LET j == IndexOf(text, {FENCE_JSON}, 1)
        f == IndexOf(text, {FENCE}, 1)
    IN  IF j # 0 THEN UpToNext(text, {FENCE_JSON, FENCE}, j)
        ELSE IF f # 0 THEN UpToNext(text, {FENCE}, f)
        ELSE text

\* a chain without the start anchor: what precedes the object is kept
FromFirstOpenKept(t) == t

\* lines 221-228: from the first brace or bracket on
FromFirstOpen(t) ==
    LET m == IndexOf(t, {"{", "["}, 1)
    IN  IF m = 0 THEN t ELSE SubSeq(t, m, Len(t))

\* a scan that ends at the last closing delimiter of the pair
ScanEndAtLast(t, i, depth, open, close) ==
    LET closers == {k \in 1..Len(t) : t[k] = close}
    IN  IF closers = {} THEN 0 ELSE CHOOSE k \in closers : \A j \in closers : j <= k

RECURSIVE ScanEnd(_, _, _, _, _)
\* lines 239-250: the index where the depth returns to zero, 0 when it never does
ScanEnd(t, i, depth, open, close) ==
    IF i > Len(t) THEN 0
    ELSE IF t[i] = open THEN ScanEnd(t, i + 1, depth + 1, open, close)
    ELSE IF t[i] = close
    THEN (IF depth - 1 = 0 THEN i ELSE ScanEnd(t, i + 1, depth - 1, open, close))
    ELSE ScanEnd(t, i + 1, depth, open, close)

\* lines 237-254: the balanced prefix, parsed
Balanced(t) ==
    IF t # <<>> /\ t[1] \in {"{", "["}
    THEN LET e == ScanEnd(t, 1, 0, t[1], IF t[1] = "{" THEN "}" ELSE "]")
         IN  IF e = 0 THEN [exc |-> FALSE, val |-> None] ELSE TryLoad(SubSeq(t, 1, e))
    ELSE [exc |-> FALSE, val |-> None]

\* lines 257-261: up to the last closing brace or bracket, parsed
TailTrimmed(t) ==
    LET closers == {i \in 1..Len(t) : t[i] \in {"}", "]"}}
    IN  IF closers = {} THEN [exc |-> FALSE, val |-> None]
        ELSE TryLoad(SubSeq(t, 1, CHOOSE i \in closers : \A k \in closers : k <= i))

\* lines 267-270: typographic quotes, then single quotes when there is no
\* double quote
FixQuotes(t) ==
    LET u == [i \in 1..Len(t) |-> IF t[i] = SMART_SQ THEN SQ
                                  ELSE IF t[i] = SMART_DQ THEN DQ ELSE t[i]]
        hasSQ == \E i \in 1..Len(u) : u[i] = SQ
        hasDQ == \E i \in 1..Len(u) : u[i] = DQ
    IN  IF hasSQ /\ ~hasDQ
        THEN [i \in 1..Len(u) |-> IF u[i] = SQ THEN DQ ELSE u[i]]
        ELSE u

RECURSIVE DropTrailingCommas(_, _)
\* line 272, re.sub(r",\s*([\}\]])", r"\1", candidate), from index i on
DropTrailingCommas(t, i) ==
    IF i > Len(t) THEN <<>>
    ELSE LET j == SkipWs(t, i + 1)
         IN  IF t[i] = "," /\ j <= Len(t) /\ t[j] \in {"}", "]"}
             THEN DropTrailingCommas(t, j)
             ELSE <<t[i]>> \o DropTrailingCommas(t, i + 1)

\* lines 264-273: the repaired snippet, parsed
Repaired(t) ==
    IF t = <<>> THEN [exc |-> FALSE, val |-> None]
    ELSE TryLoad(DropTrailingCommas(FixQuotes(t), 1))

Raised == [exc |-> TRUE, json |-> None, preview |-> None]
Found(v) == [exc |-> FALSE, json |-> v, preview |-> None]
\* lines 279-284: the failure sentinel with the preview of the snippet
NotFound(snippet) == [exc |-> FALSE, json |-> None, preview |-> Some(snippet)]

\* lines 208-284: extraction from the text generate returned (None is read
\* as the empty text, line 211)
Extract(text) ==
    LET t == StripSpaces(IF text = None THEN <<>> ELSE text[1])
        snippet == FromFirstOpen(StripSpaces(Snippet(t)))
        b == Balanced(snippet)
        tt == TailTrimmed(snippet)
        r == Repaired(snippet)
    IN  IF b.exc THEN Raised
        ELSE IF b.val # None THEN Found(b.val)
        ELSE IF tt.exc THEN Raised
        ELSE IF tt.val # None THEN Found(tt.val)
        ELSE IF r.exc THEN Raised
        ELSE IF r.val # None THEN Found(r.val)
        ELSE NotFound(snippet)

\* lines 202-206: a generate that raised gives the failure sentinel at once
GenerateJson(g) ==
    IF g.exc THEN [exc |-> FALSE, json |-> None, preview |-> None]
    ELSE Extract(g.text)

----------------------------------------------------------------------------
(* The extractor on its own: generate_json over any generated text *)

Chars == {"{", "}", "[", "]", ",", ":", DQ, SQ, SMART_DQ, ONE, SP, FENCE, FENCE_JSON}

Gens(n) == [exc : {FALSE}, text : {None} \cup {Some(t) : t \in SeqsUpTo(Chars, n)}]
        \cup {[exc |-> TRUE, text |-> None]}

ExtractorInit ==
    /\ Rest
    /\ run = NoRun
    /\ report = None
    /\ link = "up"
    /\ FileRest
    /\ BrowserRest
    /\ gen \in Gens(MaxTextLen)
    /\ extracted = None

\* generate_json returns, llm_client.py:201-284
GenerateJsonReturns ==
    /\ extracted = None
    /\ extracted' = Some(GenerateJson(gen))
    /\ UNCHANGED <<mainVars, run, report, link, disk, writers, reader, gen, browserVars>>

ExtractorNext == GenerateJsonReturns

ExtractorSpec == ExtractorInit /\ [][ExtractorNext]_vars

----------------------------------------------------------------------------
(* The extractor over answers that embed a JSON object: the object is
   written as json.dumps writes it, then put in a json fence or between
   prose, with or without a comma before each closing brace and bracket *)

LETTER == "a"                   \* a letter

\* what a string value may hold besides letters: a closing brace, an opening
\* bracket, the fence marker; keys hold a letter or an opening brace
StrChars == {LETTER, "}", "[", FENCE}
Strs == {<<>>} \cup {<<c>> : c \in StrChars}
Keys1 == <<"str", <<LETTER>> >>
Keys2 == <<"str", <<"{">> >>
Keys == {Keys1, Keys2}
Scalars == {<<"num", <<ONE>> >>} \cup {<<"str", s>> : s \in Strs}

\* the objects of at most m members with distinct keys and values of vals,
\* the value of a second member a scalar
Objects(vals, m) ==
    {<<"obj", <<>> >>}
    \cup {<<"obj", << <<k, v>> >> >> : k \in Keys, v \in vals}
    \cup (IF m < 2 THEN {}
          ELSE {<<"obj", << <<ks[1], v1>>, <<ks[2], v2>> >> >> :
                    ks \in {p \in Keys \X Keys : p[1] # p[2]},
                    v1 \in vals, v2 \in Scalars})

RECURSIVE Values(_)
\* the JSON values nested at most d deep
Values(d) ==
    IF d = 0 THEN Scalars
    ELSE LET inner == Values(d - 1)
         IN  Scalars \cup {<<"arr", q>> : q \in SeqsUpTo(inner, 1)}
                     \cup Objects(inner, 1)

RECURSIVE Dumps(_, _), DumpsItems(_, _), DumpsMembers(_, _)

\* json.dumps(v) with its default separators; tc: a comma is put after the
\* last item of every array and object that is not empty
Dumps(v, tc) ==
    LET comma == IF tc /\ v[2] # <<>> THEN <<",">> ELSE <<>>
    IN  IF v[1] = "str" THEN <<DQ>> \o v[2] \o <<DQ>>
        ELSE IF v[1] = "num" THEN v[2]
        ELSE IF v[1] = "arr"
        THEN <<"[">> \o DumpsItems(v[2], tc) \o comma \o <<"]">>
        ELSE <<"{">> \o DumpsMembers(v[2], tc) \o comma \o <<"}">>

DumpsItems(q, tc) ==
    IF q = <<>> THEN <<>>
    ELSE Dumps(Head(q), tc)
             \o (IF Len(q) > 1 THEN <<",", SP>> ELSE <<>>)
             \o DumpsItems(Tail(q), tc)

DumpsMembers(q, tc) ==
    IF q = <<>> THEN <<>>
    ELSE Dumps(Head(q)[1], tc) \o <<":", SP>> \o Dumps(Head(q)[2], tc)
             \o (IF Len(q) > 1 THEN <<",", SP>> ELSE <<>>)
             \o DumpsMembers(Tail(q), tc)

\* prose around the object: none, words, words that hold a bracketed
\* reference or a brace
ProseBefore == {<<>>, <<LETTER, SP>>, <<"[", ONE, "]", SP>>}
ProseAfter == {<<>>, <<SP, LETTER>>, <<SP, "}">>}

\* the answers: object v, fenced or between prose
Embeddings(d) ==
    [form : {"fence"}, pre : {<<>>}, post : {<<>>}, tc : BOOLEAN,
     v : Objects(Values(d), 2)]
    \cup [form : {"plain"}, pre : ProseBefore, post : ProseAfter, tc : BOOLEAN,
          v : Objects(Values(d), 2)]

\* the text of an answer (a line end is white space to strip and to \s)
EmbedText(e) ==
    IF e.form = "fence"
    THEN <<FENCE_JSON, SP>> \o Dumps(e.v, e.tc) \o <<SP, FENCE>>
    ELSE e.pre \o Dumps(e.v, e.tc) \o e.post

\* generate has returned one of the answers; src remembers how it was made
EmbedInit ==
    /\ Rest
    /\ run = NoRun
    /\ report = None
    /\ link = "up"
    /\ FileRest
    /\ BrowserRest
    /\ gen \in {[exc |-> FALSE, text |-> Some(EmbedText(e)), src |-> e] :
                   e \in Embeddings(MaxDepth)}
    /\ extracted = None

EmbedSpec == EmbedInit /\ [][ExtractorNext]_vars

----------------------------------------------------------------------------
(* The browsers of the session.  The commands of the connection are taken
   whole here (they are handled one at a time), with what each does to the
   BrowserManager objects; the close() that a reset schedules with
   asyncio.create_task runs as a step of its own.  Events and metrics are
   those of the session above and are left where they are. *)

\* managers[m]: the browser that manager m launched is open (its page is set)
IsOpen(ms, m) == ms[m]
\* BrowserManager.launch, browser.py:15-31
Launch(ms, m) == [ms EXCEPT ![m] = TRUE]
\* BrowserManager.close, browser.py:48-60
Close(ms, m) == [ms EXCEPT ![m] = FALSE]

\* how a command's collaborators behave: all succeed, every launch it tries
\* raises, or the browser starts and a later call (navigation, LLM) raises
Outcomes == {"ok", "launch_fails", "fails"}

\* verifier.py:29-38: a verifier that holds a manager without a page launches
\* a headless browser on it; a launch that raises is swallowed
VerifyLaunch(ms, b, o) ==
    IF b # None /\ ~IsOpen(ms, b[1]) /\ o # "launch_fails"
    THEN Launch(ms, b[1])
    ELSE ms

B_Receive(c) ==
    /\ pc = "idle"
    /\ ncmds < MaxBrowserCmds
    /\ ncmds' = ncmds + 1
    /\ cmd' = c

browserKeep == <<iterations, pc, payload, local, exc, loopVars, trace, last_completed,
                 raced, run, report, link, disk, writers, reader, gen, extracted>>

\* handle_explore, main.py:153-213, with PageExplorer.explore and
\* BrowserManager.navigate (browser.py:33-42)
B_Explore(o) ==
    /\ B_Receive("explore")
    /\ LET fresh == browser_manager = None
           m == IF fresh THEN Len(managers) + 1 ELSE browser_manager[1]
           ms0 == IF fresh THEN Append(managers, FALSE) ELSE managers
           \* main.py:171-173 for a new manager; browser.py:35-36 for a
           \* manager that has no page
           launched == ~IsOpen(ms0, m) /\ o # "launch_fails"
           ms1 == IF launched THEN Launch(ms0, m) ELSE ms0
       IN  /\ browser_manager' = Some(m)
           /\ managers' = ms1
           /\ current_phase' = IF fresh /\ ~launched THEN current_phase
                                ELSE Some("exploration")
           /\ page_knowledge' = IF IsOpen(ms1, m) /\ o = "ok"
                                 THEN Some(Knowledge("u1", None))
                                 ELSE page_knowledge
    /\ UNCHANGED <<test_cases, generated_code, verifier, pending, browserKeep>>

\* handle_design, main.py:215-271
B_Design(o) ==
    /\ B_Receive("design")
    /\ IF ~DesignPrecondition(page_knowledge)
       THEN UNCHANGED <<current_phase, test_cases>>
       ELSE /\ current_phase' = Some("design")
            /\ test_cases' = IF o = "ok" THEN Some(Design(None)) ELSE test_cases
    /\ UNCHANGED <<page_knowledge, generated_code, browser_manager, browserVars,
                   browserKeep>>

\* handle_generate, main.py:374-445: the verifier is made only when the
\* session has none (lines 398-400), then the loop runs verify on it
B_Generate(o) ==
    /\ B_Receive("generate")
    /\ IF ~GeneratePrecondition(test_cases)
       THEN UNCHANGED <<current_phase, generated_code, verifier, managers>>
       ELSE LET v == IF verifier = None THEN Some(browser_manager) ELSE verifier
            IN  /\ verifier' = v
                /\ current_phase' = Some("generation")
                /\ IF o = "fails"
                   THEN UNCHANGED <<generated_code, managers>>
                   ELSE /\ managers' = VerifyLaunch(managers, v[1], o)
                        /\ generated_code' = Some(<<"a">>)
    /\ UNCHANGED <<page_knowledge, test_cases, browser_manager, pending, browserKeep>>

\* handle_verify, main.py:447-504: a new verifier on the current manager
\* (lines 466-469), then verify
B_Verify(o) ==
    /\ B_Receive("verify")
    /\ IF ~VerifyPrecondition(generated_code)
       THEN UNCHANGED <<current_phase, verifier, managers>>
       ELSE /\ verifier' = Some(browser_manager)
            /\ current_phase' = Some("verification")
            /\ managers' = VerifyLaunch(managers, browser_manager, o)
    /\ UNCHANGED <<page_knowledge, test_cases, generated_code, browser_manager,
                   pending, iterations, pc, payload, local, exc, loopVars, trace,
                   last_completed, raced, run, report, link, disk, writers, reader,
                   gen, extracted>>

\* the reset command, main.py:125-130 and AgentState.reset, lines 50-61: the
\* close of the session's manager is scheduled, the verifier stays
B_Reset ==
    /\ B_Receive("reset")
    /\ AgentStateReset
    /\ pending' = IF browser_manager # None THEN pending \cup {browser_manager[1]}
                  ELSE pending
    /\ UNCHANGED <<verifier, managers, pc, payload, local, exc, loopVars, trace,
                   last_completed, raced, run, report, link, disk, writers, reader,
                   gen, extracted>>

\* the task made at main.py:60 runs BrowserManager.close
B_CloseTask(m) ==
    /\ m \in pending
    /\ managers' = Close(managers, m)
    /\ pending' = pending \ {m}
    /\ UNCHANGED <<mainVars, verifier, run, report, link, disk, writers, reader,
                   gen, extracted>>

BrowserNext ==
    \/ \E o \in Outcomes : B_Explore(o)
    \/ \E o \in Outcomes : B_Design(o)
    \/ \E o \in Outcomes : B_Generate(o)
    \/ \E o \in Outcomes : B_Verify(o)
    \/ B_Reset
    \/ \E m \in 1..MaxBrowserCmds : B_CloseTask(m)

BrowserSpec == Init /\ [][BrowserNext]_vars

----------------------------------------------------------------------------
(* Properties of the session orchestrator *)

Last(t) == t[Len(t)]
HasEntry(P(_)) == \E i \in 1..Len(trace) : P(trace[i])
IsStore(e) == e[1] = "store"
IsCompletion(e) == e[1] = "send" /\ e[2] = "phase_complete"
Returned == pc = "idle" /\ ncmds > 0

PhaseImpliesArtifact ==
    /\ current_phase = Some("design") => page_knowledge # None
    /\ current_phase = Some("generation") => test_cases # None
    /\ current_phase = Some("verification") => generated_code # None

C5_PhaseRestsAfterReturn ==
    Returned => current_phase \in {None, last_completed}

\* the artifact the command needs is absent (main.py:156, 217, 276, 329, 376, 449)
ArtifactAbsent(c, pl) ==
    \/ c = "explore" /\ pl.dict /\ pl.url = ""
    \/ c = "design" /\ ~Truthy(page_knowledge)
    \/ c \in {"refine", "generate"} /\ ~Truthy(test_cases)
    \/ c \in {"refine_code", "verify"} /\ ~Truthy(generated_code)

\* C6: a phase command whose required prior artifact is absent is rejected
\* with exactly one error event, invokes no collaborator and leaves phase,
\* page_knowledge, test_cases, generated_code and the metrics log unchanged.
C6_RejectedCommandChangesNothing ==
    [][ (ncmds' = ncmds + 1 /\ ArtifactAbsent(cmd', payload'))
            => /\ trace' = <<Send("error", "precondition")>>
               /\ pc' = "idle"
               /\ UNCHANGED sessionVars ]_vars

C6_Witness ==
    /\ cmd = "generate"
    /\ page_knowledge # None
    /\ test_cases = None
    /\ iterations # <<>>
    /\ pc = "idle"
    /\ trace = <<Send("error", "precondition")>>

Cleared ==
    /\ current_phase = None
    /\ page_knowledge = None
    /\ test_cases = None
    /\ generated_code = None
    /\ iterations = <<>>

\* C7: after a reset (the reset command, or POST /reset which is the only
\* step that leaves the websocket coroutine where it is), from any phase and
\* after any operations, phase, page_knowledge, test_cases and
\* generated_code are absent and the metrics log is empty.
C7_ResetClearsSession ==
    [][ ((ncmds' = ncmds + 1 /\ cmd' = "reset")
            \/ UNCHANGED <<pc, cmd, payload, trace, ncmds>>) => Cleared' ]_vars

C7_Witness ==
    /\ cmd = "reset"
    /\ pc = "idle"
    /\ ncmds >= 4
    /\ Cleared
    /\ trace = <<Send("info", "reset")>>

IsZeroTokenCall(e) == e[1] = "call" /\ e[3] = "zero_tokens"

\* C8: when the provider reports zero usable tokens for a call made during a
\* phase operation, the command ends with the provider-exhausted error event
\* (no completion, no generic error) and no artifact is stored.
C8_ZeroTokensEndsExhausted ==
    (Returned /\ HasEntry(IsZeroTokenCall))
        => /\ Last(trace) = Send("error", "no_tokens")
           /\ ~HasEntry(IsStore)
           /\ ~HasEntry(IsCompletion)

IsFailedCall(e) ==
    /\ e[1] = "call"
    /\ \/ e[2] \in {"llm", "vr_refine"} /\ e[3] = "request_failed"
       \/ e[2] = "browser" /\ e[3] = "failed"

\* C9: when a collaborator call made during a phase operation fails for a
\* reason other than provider exhaustion (a failed provider request
\* included), the command ends with a generic error event, no completion
\* event is emitted and nothing (in particular not the failure text) is
\* stored as an artifact.
C9_CollaboratorFailureEndsGeneric ==
    (Returned /\ HasEntry(IsFailedCall))
        => /\ Last(trace) = Send("error", "generic")
           /\ ~HasEntry(IsCompletion)
           /\ ~HasEntry(IsStore)
           /\ generated_code # Some(ErrorText)

\* main.py:164, 229, 287, 340, 388, 461: the phase a command reports
PhaseOf(c) ==
    CASE c = "explore" -> "exploration"
      [] c = "design" -> "design"
      [] c = "refine" -> "design_refinement"
      [] c = "refine_code" -> "generation_refinement"
      [] c = "generate" -> "generation"
      [] c = "verify" -> "verification"
      [] OTHER -> "none"

\* C10: the events of a command are zero or more start/progress events
\* followed by exactly one terminal event (a completion for the command's
\* phase, an error, or the confirmation of reset/chat); nothing is sent after
\* the terminal event and there are never two.
C10_OneTerminalEventLast ==
    LET ev == Sends(trace)
        n == Len(ev)
    IN  /\ \A i \in 1..n : IsTerminal(ev[i]) => i = n
        /\ \A i \in 1..n : ~IsTerminal(ev[i]) => ev[i][2] \in {"phase_start", "progress"}
        /\ \A i \in 1..n : IsCompletion(ev[i]) => ev[i][3] = PhaseOf(cmd)
        /\ (pc \in {"idle", "closed"} /\ ncmds > 0) => (n > 0 /\ IsTerminal(ev[n]))
        /\ pc \notin {"idle", "closed"} => (n > 0 /\ ~IsTerminal(ev[n]))

C10_Witness ==
    /\ pc = "idle"
    /\ cmd = "generate"
    /\ Len(Sends(trace)) >= 8
    /\ Last(trace) = Send("phase_complete", "generation")

----------------------------------------------------------------------------
(* Properties of the self-correction loop *)

IsExec(e) == e[1] = "call" /\ e[2] = "vr_verify"
IsRefine(e) == e[1] = "call" /\ e[2] = "vr_refine"
NExec == Count(trace, IsExec)
NRefine == Count(trace, IsRefine)
Execs == SelectSeq(trace, IsExec)
FirstExecPassed == Execs # <<>> /\ Execs[1][3] = "pass"

\* C1: one call of verify_and_refine with budget N = max_rounds performs at
\* most N executions (verifier.verify) and at most N-1 refinements
\* (refine_code).
C1_AtMostNExecNMinus1Refine ==
    /\ NExec <= max_rounds
    /\ NRefine <= max_rounds - 1

\* C2: the report verify_and_refine returns is the report of executing
\* exactly the code it returns.
C2_ReturnedReportIsOfReturnedCode ==
    vr # None =>
        /\ vr[1].verification # None
        /\ vr[1].verification[1].code = vr[1].code

\* C3: when the first execution reports success the loop performs exactly
\* one execution and no refinement, and returns the input code unchanged
\* together with that report, for every budget.
C3_FirstSuccessReturnsInput ==
    FirstExecPassed =>
        /\ NExec = 1
        /\ NRefine = 0
        /\ vr # None
        /\ vr[1].code = local[1]
        /\ vr[1].verification = last_result
        /\ vr[1].verification[1].success
        /\ vr[1].verification[1].code = local[1]

C3_Witness ==
    /\ FirstExecPassed
    /\ max_rounds >= 2
    /\ pc = "vr_returned"
    /\ vr # None

----------------------------------------------------------------------------
(* Properties of the generate command, main.py:374-445 *)

IsGeneration(e) == e[1] = "call" /\ e[2] = "llm"
IsGenerateResult(e) ==
    e = Store("generated_code") \/ e = Send("phase_complete", "generation")

\* C11: the generate command neither stores generated_code nor emits its
\* completion event before an execution attempt of the self-correction loop
\* has finished; the order is initial generation, then at least one
\* execution, then store and completion.
C11_StoreAfterExecution ==
    cmd = "generate" =>
        \A i \in 1..Len(trace) :
            IsGenerateResult(trace[i]) =>
                \E j \in 1..(i - 1) :
                    /\ IsExec(trace[j])
                    /\ \E k \in 1..(j - 1) : IsGeneration(trace[k])

C11_Witness ==
    /\ cmd = "generate"
    /\ generated_code # None
    /\ HasEntry(IsStore)
    /\ NExec = 1
    /\ trace[Len(trace) - 1] = Store("generated_code")

IsGoodRefine(e) == e = Call("vr_refine", "ok")
\* every execution that follows the first refinement passed
RefinedCodePasses ==
    \A i, j \in 1..Len(trace) :
        (IsRefine(trace[i]) /\ IsExec(trace[j]) /\ i < j) => trace[j][3] = "pass"

\* C12: after explore, design and generate, where the first generated code
\* fails execution and the refined code passes, the stored generated_code is
\* the refined version and the verification reported for the generate command
\* has success = true.
C12_RefinedCodeStoredWithSuccess ==
    (/\ pc = "idle"
     /\ cmd = "generate"
     /\ last_completed = Some("generation")
     /\ Execs # <<>> /\ Execs[1][3] = "fail"
     /\ HasEntry(IsGoodRefine)
     /\ RefinedCodePasses)
        => /\ generated_code = Some(code)
           /\ vr[1].code = code
           /\ vr[1].verification # None
           /\ vr[1].verification[1].success

----------------------------------------------------------------------------
(* Properties of the report parser, verifier.py:119-228 *)

Parsed == report # None /\ ~run.exc

\* C13: the report's success field is determined by the runner's exit status
\* alone: it is true exactly when the exit status is 0, whatever the passed,
\* failed and errors counts are.
C13_SuccessIsExitStatus ==
    Parsed => (report[1].success <=> run.rc = 0)

C13_Witness ==
    /\ Parsed
    /\ run.rc # 0
    /\ report[1].passed > 0 /\ report[1].failed = 0 /\ report[1].errors = 0
    /\ ~report[1].success

LastLine == run.raw[Len(run.raw)]
EndsWithSummary == run.raw # <<>> /\ LastLine \in Summaries

\* the count the summary line gives for a word, -1 when it gives none
SummaryCount(ws) == SearchCount(LastLine, ws)

\* C14: when the raw output contains the numeric summary ("<p> passed",
\* "<f> failed", "<e> error(s)"), the report's passed, failed and errors
\* counts equal the numbers of that summary, whatever marker lines or other
\* text precede it.
C14_CountsAreTheSummarys ==
    (Parsed /\ EndsWithSummary) =>
        /\ SummaryCount({"passed"}) >= 0
              => report[1].passed = SummaryCount({"passed"})
        /\ SummaryCount({"failed"}) >= 0
              => report[1].failed = SummaryCount({"failed"})
        /\ SummaryCount({"error", "errors"}) >= 0
              => report[1].errors = SummaryCount({"error", "errors"})

----------------------------------------------------------------------------
(* Properties of a failing execution step, verifier.py:119-228 *)

LastExecCrashed == Execs # <<>> /\ Last(Execs)[3] = "crash"

\* C15: a hard failure of the execution step (the runner cannot start or
\* raises) does not leave verification as an exception: the attempt's result
\* is a report with success = false, passed = 0, failed = 0, errors = 1, and
\* the self-correction loop goes on with it as with any failed attempt.
C15_CrashBecomesErrorReport ==
    [][ (pc = "vr_running" /\ pc' # pc /\ NExec' = NExec + 1 /\ LastExecCrashed')
            => /\ last_result' # None
               /\ ~last_result'[1].success
               /\ last_result'[1].passed = 0
               /\ last_result'[1].failed = 0
               /\ last_result'[1].errors = 1
               /\ last_result'[1].code = code
               /\ exc' = ""
               /\ pc' = "vr_refining" ]_vars

C15_Witness ==
    /\ NExec >= 2
    /\ Execs[1][3] = "crash"
    /\ last_result # None
    /\ last_result[1].errors = 1
    /\ pc = "vr_refining"

----------------------------------------------------------------------------
(* Properties of progress notifications, generator.py:155-198 *)

LastExecPassed == Execs # <<>> /\ Last(Execs)[3] = "pass"

\* C16: progress notifications are observational only: a failing send is
\* swallowed, so no send failure leaves the loop as an exception, and an
\* execution that passed is reported with success = true and ends the loop
\* with the executed code, whether or not a send failed.
C16_SendFailureIsSwallowed ==
    /\ exc # "SendError"
    /\ LastExecPassed =>
          /\ last_result # None /\ last_result[1].success
          /\ vr # None /\ vr[1].code = code
          /\ pc = "vr_returned"

----------------------------------------------------------------------------
(* Properties of the scheduling of handlers, main.py:90-135 *)

AtRest == pc \in {"idle", "closed"}
\* the step is POST /reset: the only step that leaves the websocket
\* coroutine and its history where they are
ResetEndpointStep == UNCHANGED <<pc, cmd, payload, trace, ncmds>>

\* C17 as stated: no handler that reads or writes the session state (a
\* websocket command, the reset command or POST /reset) starts while another
\* handler's chain of collaborator calls is still in progress.
C17_OneHandlerAtATime ==
    [][ (ncmds' = ncmds + 1 \/ ResetEndpointStep) => AtRest ]_vars

\* C17 as amended: the commands of the websocket connection are handled one
\* at a time, the next message (reset included) being taken only when the
\* previous handler has returned or failed; POST /reset is not serialised
\* with them and can run while a handler is suspended.
C17_CommandsOneAtATime ==
    [][ ncmds' = ncmds + 1 => (pc = "idle" /\ trace' # <<>>) ]_vars

C17_Witness ==
    /\ ncmds >= 2
    /\ ~AtRest
    /\ raced
    /\ Cleared

\* the field a store entry of the history names is non-empty
StoredArtifactPresent(e) ==
    CASE e[2] = "page_knowledge" -> page_knowledge # None
      [] e[2] = "test_cases" -> test_cases # None
      [] OTHER -> generated_code # None

\* the last entry but one of a finished command's history is its store
StoredLast == Len(trace) >= 2 /\ IsStore(trace[Len(trace) - 1])

\* C18: a reset that runs while a phase operation is suspended at a
\* collaborator call (the only step taken then that adds nothing to the
\* history) does not cancel it: the handler stays where it is with its
\* locals, and when it goes on to store its artifact the field is non-empty
\* although the session was reset and no command came after.
C18_ResetDoesNotCancel ==
    [][ /\ (~AtRest /\ UNCHANGED <<trace, ncmds>>)
            => (UNCHANGED <<pc, cmd, payload, local, exc, loopVars>> /\ raced')
        /\ (raced /\ ~AtRest /\ pc' = "idle" /\ StoredLast')
            => (StoredArtifactPresent(trace[Len(trace) - 1])' /\ raced') ]_vars

C18_Witness ==
    /\ raced
    /\ ncmds = 1
    /\ cmd = "explore"
    /\ pc = "idle"
    /\ page_knowledge # None
    /\ current_phase = None
    /\ iterations = <<>>

----------------------------------------------------------------------------
(* Properties of the latest-report file *)

\* C19: every reader of the latest-report file observes either no report or
\* one completely written report, never a partially written one, for every
\* interleaving with the writers of that file (TestVerifier.verify and the
\* run_verif_screenshot tool).
C19_ReaderNeverSeesPartial == reader.result # "partial"

----------------------------------------------------------------------------
(* Properties of the structured response extractor, llm_client.py:193-284 *)

Extracted == extracted # None /\ ~gen.exc

BracketFree(t) == \A i \in 1..Len(t) : t[i] \notin {"{", "}", "[", "]"}

\* C21: for every text that holds no brace and no bracket at all,
\* generate_json returns the failure sentinel (json absent) and raises no
\* exception.
C21_NoBracketIsFailure ==
    (Extracted /\ gen.text # None /\ BracketFree(gen.text[1])) =>
        (~extracted[1].exc /\ extracted[1].json = None)

Fenced == extracted # None /\ gen.src.form = "fence"

\* C22: for every well-formed JSON object v, generate_json applied to the
\* serialization of v inside a json fence returns exactly v, also when
\* strings of v hold braces or brackets.
C22_FencedRoundTrip ==
    (Fenced /\ ~gen.src.tc) => extracted[1].json = Some(gen.src.v)

\* an object written without trailing commas, between prose, in a text that
\* holds no fence marker
InProse ==
    /\ extracted # None
    /\ gen.src.form = "plain"
    /\ ~gen.src.tc
    /\ gen.src.pre # <<>> \/ gen.src.post # <<>>
    /\ \A i \in 1..Len(gen.text[1]) : gen.text[1][i] # FENCE

WithTrailingCommas ==
    /\ extracted # None
    /\ gen.src.tc
    /\ gen.src.v[2] # <<>>
    /\ gen.src.pre = <<>>

\* C24: for every JSON object that is well-formed except for commas before
\* closing braces and brackets, generate_json returns the value of the object
\* without those commas, whether the object stands alone, sits in a fence or
\* is followed by commentary.
C24_TrailingCommasRecovered ==
    WithTrailingCommas => extracted[1].json = Some(gen.src.v)

----------------------------------------------------------------------------
(* Properties of the metrics log, metrics.py *)

IsPrefixOf(a, b) == Len(a) <= Len(b) /\ SubSeq(b, 1, Len(a)) = a
\* the step takes the reset command from the websocket
ResetCommandStep == ncmds' = ncmds + 1 /\ cmd' = "reset"

\* C25: the metrics log is append-only between resets: every step keeps the
\* entries it finds, in their order, and can only add entries behind them;
\* the steps that do otherwise are resets (the reset command or POST /reset),
\* and they leave the log empty.
C25_MetricsAppendOnly ==
    [][ \/ IsPrefixOf(iterations, iterations')
        \/ /\ iterations' = <<>>
           /\ ResetCommandStep \/ ResetEndpointStep ]_vars

C25_Witness ==
    /\ Len(iterations) >= 4
    /\ iterations[1] = "exploration"
    /\ iterations[2] = "design"
    /\ iterations[Len(iterations)] = "verification_attempt"

----------------------------------------------------------------------------
(* Properties of the phases that read a structured result,
   explorer.py:43-69 and designer.py:13-40 *)

\* generate_json has just returned to the operation at pc p: the call's entry
\* is what the step added to the history, and generate did not raise
ExtractorReturned(p, at) ==
    /\ pc = p
    /\ Len(trace') >= Len(trace) + at
    /\ \E resp \in LLMResponses :
           /\ LLMGenerate(resp).exc = ""
           /\ ParseJson(LLMGenerate(resp).text) = None
           /\ trace'[Len(trace) + at] = Call("llm", LLMOutcome(resp))

NoErrorSent(t) == \A i \in 1..Len(t) : ~(t[i][1] = "send" /\ t[i][2] = "error")

\* the history ends with the store of field f and the completion of phase ph
EndsCompleted(t, f, ph) ==
    /\ Len(t) >= 2
    /\ t[Len(t) - 1] = Store(f)
    /\ t[Len(t)] = Send("phase_complete", ph)
    /\ NoErrorSent(t)

\* C26: when generate_json yields no structured result during explore or
\* design, the operation goes on with the default artifact (no elements; no
\* test cases and no coverage), and the handler then stores that artifact and
\* sends the completion event, no error event.
C26_NoResultGivesDefaultArtifact ==
    [][ /\ ExtractorReturned("explore_browsing", 4)
            => (pc' = "explore_built" /\ local' # None
                /\ local'[1].elements = "empty" /\ NoErrorSent(trace'))
        /\ ExtractorReturned("design_progress", 1)
            => (pc' = "design_built" /\ local' # None
                /\ local'[1].cases = "empty" /\ local'[1].coverage = "empty"
                /\ NoErrorSent(trace'))
        /\ (pc = "explore_built" /\ pc' # pc)
            => (pc' = "idle" /\ page_knowledge' = local
                /\ EndsCompleted(trace', "page_knowledge", "exploration"))
        /\ (pc = "design_built" /\ pc' # pc)
            => (pc' = "idle" /\ test_cases' = local
                /\ EndsCompleted(trace', "test_cases", "design")) ]_vars

C26_Witness ==
    /\ pc = "idle"
    /\ cmd = "design"
    /\ test_cases = Some(Design(None))
    /\ page_knowledge # None
    /\ page_knowledge[1].elements = "empty"
    /\ EndsCompleted(trace, "test_cases", "design")
    /\ \E i \in 1..Len(trace) : trace[i] = Call("llm", "null_content")

----------------------------------------------------------------------------
(* Properties of the session's browsers, main.py:50-61 and 398-400,
   verifier.py:29-38 *)

\* the last command was a reset and every close scheduled so far has run
ResetCompleted == cmd = "reset" /\ pending = {}

\* C27: once a reset and the browser close it schedules have completed, no
\* browser launched for the session is open, whatever explore, design,
\* generate, verify and reset commands came before.
C27_NoBrowserOpenAfterReset ==
    ResetCompleted => \A m \in 1..Len(managers) : ~IsOpen(managers, m)

----------------------------------------------------------------------------
(* Properties of the receive loop, main.py:96-151 *)

\* the command last received ended with an error event
ErrorEmitted == pc \in {"idle", "closed"} /\ ~NoErrorSent(trace)

\* C28: no error is fatal to command processing: once an error event has been
\* emitted, whether for a precondition, a collaborator failure, an unknown
\* command or a message that cannot be decoded, the receive loop of that
\* connection still takes commands.
C28_ErrorLeavesConnectionOpen == ErrorEmitted => pc = "idle"

----------------------------------------------------------------------------
(* Properties of the counts taken without a numeric summary,
   verifier.py:161-198 *)

\* the raw output holds no "<n> <word>" for the words ws
CountAbsent(ws) == SearchCount(Flatten(run.raw), ws) < 0

\* the lines of the filtered log that carry the marker k and are not the
\* summary line
MarkerLines(k) ==
    LET log == report[1].output
    IN  Cardinality({i \in 1..Len(log) :
            /\ \E j \in 1..Len(log[i]) : IsWord(log[i][j], {k})
            /\ ~PatternSummary(log[i])})

\* C29: a count (passed, failed, errors) whose numeric summary is absent from
\* the raw output equals the number of marker lines of its kind in the
\* filtered log, the summary line never being counted; so for each of the
\* three counts.
C29_FallbackCountsMarkerLines ==
    Parsed =>
        /\ CountAbsent({"passed"}) => report[1].passed = MarkerLines("passed")
        /\ CountAbsent({"failed"}) => report[1].failed = MarkerLines("failed")
        /\ CountAbsent({"error", "errors"}) => report[1].errors = MarkerLines("error")

----------------------------------------------------------------------------
(* Properties of the candidates the self-correction loop executes,
   generator.py:155-190 *)

Executions(t) == Count(t, LAMBDA e : e[1] = "call" /\ e[2] = "vr_verify")
Refinements(t) == Count(t, LAMBDA e : e[1] = "call" /\ e[2] = "vr_refine")

\* verifier.verify returns the report of an attempt
ExecStep == pc = "vr_running" /\ pc' \in {"vr_returned", "vr_refining"}
\* refine_code returns a new candidate
RefineStep == pc = "vr_refining" /\ pc' = "vr_loop"

\* C30: in the self-correction loop the code executed in attempt k+1 is
\* exactly what the refinement call returned, that call being made with the
\* code executed in attempt k and the issue of attempt k's report; a failed
\* attempt that is followed by another one triggers exactly one refinement,
\* and no candidate from before the latest refinement is executed again
\* (attempt k runs the candidate of refinement k-1, the input for k = 1).
C30_AttemptRunsLatestRefinement ==
    [][ /\ ExecStep =>
            /\ last_result' # None /\ last_result'[1].code = code
            /\ Executions(trace') = attempt
            /\ Refinements(trace') = attempt - 1
        /\ RefineStep =>
            /\ last_result # None
            /\ ~IsSuccess(last_result[1])
            /\ last_result[1].code = code
            /\ Executions(trace) = attempt
            /\ Refinements(trace') = attempt
            /\ \E resp \in LLMResponses :
                  /\ trace'[Len(trace')] = Call("vr_refine", LLMOutcome(resp))
                  /\ LLMGenerate(resp).text # None
                  /\ code' = ExtractCode(LLMGenerate(resp).text[1])
        /\ ~RefineStep => code' = code
      ]_vars

C30_Witness ==
    /\ pc \in {"vr_returned", "vr_refining"}
    /\ attempt = 3
    /\ Executions(trace) = 3 /\ Refinements(trace) = 2
    /\ last_result # None /\ last_result[1].code = code
    /\ code # local[1]

----------------------------------------------------------------------------
(* Properties of the ways the self-correction loop ends,
   generator.py:116-198 *)

\* verify_and_refine has ended, by a return or by an exception
LoopEnded == pc \in {"vr_returned", "vr_raised"}

\* C31: verify_and_refine ends only at the first successful attempt or after
\* all max_rounds attempts have been executed; a failure raised inside a
\* round, by execution or by refinement, never ends it earlier.
C31_EndsOnSuccessOrExhaustion ==
    LoopEnded => (LastExecPassed \/ NExec = max_rounds)

----------------------------------------------------------------------------
(* Properties of the issue handed to refine_code, generator.py:181-190 *)

GenericIssue == << <<Word("Tests failed during execution")>> >>

\* refine_code is running on the issue of the attempt just failed
Refining == pc = "vr_refining"

\* C32: the issue text passed to refinement after a failed attempt is the
\* report's filtered log when that log is not empty, and the generic message
\* "Tests failed during execution" exactly when the report carries no log.
C32_IssueIsLogOrGeneric ==
    Refining =>
        /\ issue # None
        /\ last_result[1].output # <<>> => issue[1] = last_result[1].output
        /\ issue[1] = GenericIssue <=> last_result[1].output = <<>>

C32_Witness ==
    /\ Refining
    /\ attempt = 2
    /\ last_result[1].output = <<>>
    /\ issue = Some(GenericIssue)

\* the other case of C32: a failed attempt that left a log
C32_WitnessLog ==
    /\ Refining
    /\ last_result[1].output # <<>>
    /\ issue = Some(last_result[1].output)

----------------------------------------------------------------------------
(* Properties of the balanced scan, llm_client.py:236-277 *)

\* the text the scan walks: the fence interior or the whole answer, from its
\* first brace or bracket on
Scanned == FromFirstOpen(StripSpaces(Snippet(StripSpaces(gen.text[1]))))

\* openers minus closers of the pair (open, close) among the first i
\* characters of t, whether or not they stand inside a quoted string
DepthAt(t, i, open, close) ==
    Cardinality({k \in 1..i : t[k] = open}) - Cardinality({k \in 1..i : t[k] = close})

\* the first position where the depth of the opening pair is back at zero
FirstZero(t) ==
    LET close == IF t[1] = "{" THEN "}" ELSE "]"
        zeros == {i \in 1..Len(t) : DepthAt(t, i, t[1], close) = 0}
    IN  IF zeros = {} THEN 0 ELSE MinOf(zeros)

\* the scan's span exists and parses
SpanParses ==
    /\ extracted # None
    /\ gen.text # None
    /\ Scanned # <<>>
    /\ Scanned[1] \in {"{", "["}
    /\ FirstZero(Scanned) # 0
    /\ JsonLoads(SubSeq(Scanned, 1, FirstZero(Scanned))).ok

\* C33: the balanced scan follows the depth of the delimiter pair that opens
\* the candidate only, counts the delimiters inside quoted strings too, and
\* takes the span that ends where that depth first returns to zero; when
\* the span parses, its value is the result and neither the tail trim nor
\* the repair is applied.
C33_FirstBalancedSpanWins ==
    SpanParses =>
        /\ ~extracted[1].exc
        /\ extracted[1].json =
               Some(JsonLoads(SubSeq(Scanned, 1, FirstZero(Scanned))).val)

\* the span is a proper prefix: the list of a bracketed reference before an
\* object that holds an array itself
C33_Witness ==
    /\ SpanParses
    /\ gen.src.pre = <<"[", ONE, "]", SP>>
    /\ \E i \in (FirstZero(Scanned) + 1)..Len(Scanned) : Scanned[i] = "]"
    /\ extracted[1].json = Some(<<"arr", << <<"num", <<ONE>> >> >> >>)

----------------------------------------------------------------------------
(* Properties of the design built from the provider's answer,
   llm_client.py:97-129, designer.py:13-40, main.py:233-256 *)

\* a design command has completed on an answer the provider gave in full
DesignAnswered ==
    /\ cmd = "design"
    /\ pc = "idle"
    /\ ~raced
    /\ trace # <<>>
    /\ Last(trace) = Send("phase_complete", "design")
    /\ \E i \in 1..Len(trace) : trace[i] = Call("llm", "ok")

\* C34: when the provider answers a design request with a well-formed JSON
\* object holding test_cases and coverage, bare or inside a json fence, the
\* design command stores exactly those test cases and that coverage and
\* emits them in its completion event.
C34_DesignStoresAnsweredCases ==
    DesignAnswered =>
        /\ test_cases # None
        /\ test_cases[1].cases = "parsed"
        /\ test_cases[1].coverage = "parsed"

----------------------------------------------------------------------------
(* Properties of the stored artifacts, main.py:50-61, 215-244, 374-417 *)

DependencyClosed ==
    /\ test_cases # None => page_knowledge # None
    /\ generated_code # None => test_cases # None

\* C35: in every state reached by commands processed one at a time (no
\* POST /reset inside a suspended handler since the session was last reset at
\* rest) the artifacts are dependency-closed: test_cases present implies
\* page_knowledge present, and generated_code present implies test_cases
\* present.
C35_ArtifactsDependencyClosed == ~raced => DependencyClosed

C35_Witness ==
    /\ ~raced
    /\ pc = "idle"
    /\ cmd = "refine_code"
    /\ page_knowledge # None /\ test_cases # None /\ generated_code # None

----------------------------------------------------------------------------
(* Properties of a handler between its precondition check and its
   collaborator call, main.py:215-244, 374-409, 90-94 *)

\* handle_design sets the phase and calls the designer (lines 239-243)
DesignCallStep == pc = "design_started" /\ pc' = "design_progress"
\* handle_generate sets the phase and calls the generator (lines 402-409)
GenerateCallStep == pc = "gen_started" /\ pc' = "gen_progress"

\* C36: the artifact a phase handler found present at its precondition check
\* is still present when the handler sets the phase and invokes its
\* collaborator, for every interleaving of a reset with the handler's
\* suspension points, the phase_start send between check and use included.
C36_CheckedArtifactStillPresent ==
    [][ /\ DesignCallStep => (page_knowledge # None /\ local' # None)
        /\ GenerateCallStep => (test_cases # None /\ local'[1].tc # None)
      ]_vars

----------------------------------------------------------------------------
(* Properties of re-exploration, main.py:169-198 *)

\* a step of the explore handler (a POST /reset leaves pc, trace and ncmds
\* as they are)
ExploreStep == cmd' = "explore" /\ <<pc, trace, ncmds>>' # <<pc, trace, ncmds>>
\* the explore handler stores what it built
ExploreStoreStep ==
    ExploreStep /\ pc = "explore_built" /\ pc' = "idle"

\* C37: a successful re-exploration overwrites page_knowledge and leaves
\* test_cases and generated_code unchanged, so what was derived from the
\* previous page remains stored and still satisfies the preconditions of
\* generate, refine, refine_code and verify.
C37_ReExplorationKeepsDerived ==
    [][ /\ ExploreStep => UNCHANGED <<test_cases, generated_code>>
        /\ ExploreStoreStep =>
              /\ page_knowledge' = local /\ page_knowledge' # None
              /\ GeneratePrecondition(test_cases') = GeneratePrecondition(test_cases)
              /\ RefinePrecondition(test_cases') = RefinePrecondition(test_cases)
              /\ RefineCodePrecondition(generated_code')
                     = RefineCodePrecondition(generated_code)
              /\ VerifyPrecondition(generated_code') = VerifyPrecondition(generated_code)
      ]_vars

\* the page u2 explored after code was generated for the page explored first
C37_Witness ==
    /\ cmd = "explore" /\ pc = "idle" /\ ncmds = 4 /\ ~raced
    /\ Last(trace) = Send("phase_complete", "exploration")
    /\ page_knowledge # None /\ page_knowledge[1].url = "u2"
    /\ GeneratePrecondition(test_cases) /\ RefinePrecondition(test_cases)
    /\ RefineCodePrecondition(generated_code) /\ VerifyPrecondition(generated_code)

----------------------------------------------------------------------------
(* Properties of a command that ends with an error event,
   main.py:169-213, 291-324, 392-445 *)

Artifacts == <<page_knowledge, test_cases, generated_code>>

\* a step of the websocket coroutine (a POST /reset leaves pc, trace and
\* ncmds as they are)
HandlerStep == <<pc, trace, ncmds>>' # <<pc, trace, ncmds>>
HasStore(t) == \E i \in 1..Len(t) : IsStore(t[i])
EndedWithError == pc \in {"idle", "closed"} /\ ~NoErrorSent(trace)

\* C38: a phase command that ends with an error event leaves page_knowledge,
\* test_cases and generated_code as they were before it: the steps of a
\* handler change them only in the step that completes the command, and a
\* command that ends with an error has stored nothing; so a generate whose
\* self-correction loop fails stores neither the initial nor a refined code.
C38_ErrorLeavesArtifacts ==
    [][ HandlerStep =>
          /\ (Artifacts' # Artifacts /\ cmd' # "reset") =>
                (pc' = "idle" /\ IsCompletion(Last(trace')) /\ NoErrorSent(trace'))
          /\ EndedWithError' => (Artifacts' = Artifacts /\ ~HasStore(trace'))
      ]_vars

\* a generate that ran out of tokens in the refinement of its loop
C38_Witness ==
    /\ cmd = "generate" /\ ~raced
    /\ EndedWithError
    /\ \E i \in 1..Len(trace) : trace[i] = Call("vr_refine", "quota")
    /\ page_knowledge # None /\ test_cases # None
    /\ generated_code = None

----------------------------------------------------------------------------
(* Properties of a design refinement without a structured result,
   designer.py:86-115, main.py:296-317 *)

\* designer.refine returns to handle_refine
RefineGeneratedStep == pc = "refine_progress" /\ pc' # pc

\* the provider call of the command returned (it did not raise for quota)
GenerationReturned(t) ==
    \E i \in 1..Len(t) : t[i][1] = "call" /\ t[i][2] = "llm" /\ t[i][3] # "quota"

====
